---------------------------- MODULE Spec2Model ----------------------------
(***************************************************************************)
(* A model of the documentation post-processing scripts of AudioEngine:    *)
(*   scripts/merge-sourcekitten-data.py  (extract_declaration,             *)
(*       highlight_swift, merge_structure_and_docs)                        *)
(*   scripts/replace-undocumented.py     (convert_backticks_to_code,       *)
(*       replace_undocumented_in_html)                                     *)
(* Text is a TLA+ string; bytes are sequences of integers 0..255.          *)
(***************************************************************************)
EXTENDS Integers, Sequences, FiniteSets, TLC

VARIABLES
    \* extract_declaration(source_code, offset, length): the arguments, what
    \* the call gave, and where the call stands
    ex_source_code, ex_offset, ex_length, ex_result, ex_pc,
    \* highlight_swift(code): the argument, the local code (hl_code) as the stages
    \* rewrite it, and the stage that runs next
    hl_input, hl_code, hl_pc,
    \* merge_structure_and_docs(structure, docs, source_code): the arguments
    \* (docs holds the caller's record objects, which the function updates in
    \* place), the locals structure_map, result (references to the objects of
    \* docs, by position), offset and length of the latest iteration
    \* (mg_offset, mg_length), the
    \* position of the loop, the records a warning was printed for, and the
    \* doc list as it was passed in
    structure, docs, mg_source_code, structure_map, result, mg_offset,
    mg_length, doc_idx, warnings, mg_pc, docs_in,
    \* replace_undocumented_in_html(html_file, inline_docs): the arguments,
    \* the page on disk, the parsed page soup that the function rewrites,
    \* replaced_count, the position of the loop over task_items, the locals
    \* name and doc of its latest iteration, and where the call stands
    html_file, inline_docs, disk, soup, replaced_count, item_idx, name, doc,
    ru_pc,
    \* main() of the merge tool: the parsed command line args, what was
    \* printed to standard error, the output file, the exit code, and where
    \* the run stands
    args, stderr, output, exit_code, main_pc,
    \* parse_swift_inline_docs(swift_file) and the extract_doc_comment call
    \* it makes: the lines that were read, the position of the loop over them
    \* (the start_idx of the call), the key matched on that line, the locals
    \* of extract_doc_comment (its index i as walk_idx, in_block_comment,
    \* doc_lines), the map docs under construction, and where the scan stands
    lines, start_idx, rc_key, walk_idx, in_block_comment, doc_lines,
    swift_docs, rc_pc,
    \* main() of replace-undocumented.py, the loop over the Swift files: the
    \* files that swift_dir.glob yields, each with what the loop finds for it,
    \* the position of the loop, the files whose page was written, and where
    \* the run stands
    swift_files, file_idx, written, tool_pc,
    \* convert_backticks_to_code, one step of its while loop at a time: the
    \* argument, the locals i, current_text, in_code and parts, and where the
    \* call stands
    cv_text, cv_i, cv_current_text, cv_in_code, cv_parts, cv_pc,
    \* clean_file of clean-docs.py: the file on disk, the locals content and
    \* original_content, how many rules of the table have been applied, what
    \* the call returned, and where it stands
    cl_file, content, original_content, rule_idx, cl_changed, cl_pc

ex_vars == <<ex_source_code, ex_offset, ex_length, ex_result, ex_pc>>
hl_vars == <<hl_input, hl_code, hl_pc>>
mg_vars == <<structure, docs, mg_source_code, structure_map, result,
             mg_offset, mg_length, doc_idx, warnings, mg_pc, docs_in>>

ru_vars == <<html_file, inline_docs, disk, soup, replaced_count, item_idx,
             name, doc, ru_pc>>

mn_vars == <<args, stderr, output, exit_code, main_pc>>

rc_vars == <<lines, start_idx, rc_key, walk_idx, in_block_comment, doc_lines,
             swift_docs, rc_pc>>

tl_vars == <<swift_files, file_idx, written, tool_pc>>

cv_vars == <<cv_text, cv_i, cv_current_text, cv_in_code, cv_parts, cv_pc>>

cl_vars == <<cl_file, content, original_content, rule_idx, cl_changed, cl_pc>>

vars == <<ex_vars, hl_vars, mg_vars, ru_vars, mn_vars, rc_vars, tl_vars, cv_vars,
          cl_vars>>

\* what each component leaves alone
ex_others == <<hl_vars, mg_vars, ru_vars, mn_vars, rc_vars, tl_vars, cv_vars,
              cl_vars>>
hl_others == <<ex_vars, mg_vars, ru_vars, mn_vars, rc_vars, tl_vars, cv_vars,
              cl_vars>>
mg_others == <<ex_vars, hl_vars, ru_vars, mn_vars, rc_vars, tl_vars, cv_vars,
              cl_vars>>
ru_others == <<ex_vars, hl_vars, mg_vars, mn_vars, rc_vars, tl_vars, cv_vars,
              cl_vars>>
mn_others == <<ex_vars, hl_vars, ru_vars, rc_vars, tl_vars, cv_vars,
              cl_vars>>
rc_others == <<ex_vars, hl_vars, mg_vars, ru_vars, mn_vars, tl_vars, cv_vars,
              cl_vars>>
tl_others == <<ex_vars, hl_vars, mg_vars, mn_vars, rc_vars, cv_vars,
              cl_vars>>
cv_others == <<ex_vars, hl_vars, mg_vars, ru_vars, mn_vars, rc_vars, tl_vars,
              cl_vars>>
cl_others == <<ex_vars, hl_vars, mg_vars, ru_vars, mn_vars, rc_vars, tl_vars,
              cv_vars>>

-----------------------------------------------------------------------------
(* Bounds of the model.                                                    *)

\* largest offset and largest length drawn for extract_declaration
MaxOffset == 7
MaxLength == 4
\* longest doc list passed to merge_structure_and_docs
MaxDocs == 2
\* most entries of a comment map, most items of a page
MaxKeys == 2
MaxItems == 2
\* how many lines of a Swift file may stand above its commented declaration
MaxAbove == 2
\* how many Swift files a run of the comment-recovery tool goes through
MaxFiles == 2
\* how long a text given to convert_backticks_to_code is
MaxText == 5
\* how many fragments a page given to clean_file is made of
MaxFragments == 2

-----------------------------------------------------------------------------
(* Python values.  A JSON number, string or null that can stand where an   *)
(* offset or a length is expected.                                         *)

JInt(n) == [type |-> "int", value |-> n]
JStr(s) == [type |-> "str", text |-> s]
None == [type |-> "none"]
IsInt(v) == v.type = "int"

\* a dict is a function from its keys; d.get(k) with None for a missing key
Get(d, k) == IF k \in DOMAIN d THEN d[k] ELSE None
\* d[k] = v
Put(d, k, v) == (k :> v) @@ d
EmptyDict == [k \in {} |-> None]

-----------------------------------------------------------------------------
(* Characters, code points and UTF-8.                                      *)

Char(s, i) == SubSeq(s, i, i)

\* the printable ASCII characters, code points 32..126 in order
\* U+0060, the one character a TLA+ string literal cannot hold, is written
\* with this stand-in wherever a text contains it
Backtick == "´"

Printable ==
    " !\"#$%&'()*+,-./0123456789:;<=>?@ABCDEFGHIJKLMNOPQRSTUVWXYZ[\\]^_"
    \o Backtick \o "abcdefghijklmnopqrstuvwxyz{|}~"

\* ord(c) of the characters the model uses
CodePoints ==
    [i \in 1..95 |-> 31 + i]

ord ==
    [c \in {Char(Printable, i) : i \in 1..95} \cup {"\n", "é", "€"} |->
        IF c = "\n" THEN 10
        ELSE IF c = "é" THEN 233
        ELSE IF c = "€" THEN 8364
        ELSE CodePoints[CHOOSE i \in 1..95 : Char(Printable, i) = c]]

\* chr(cp), the inverse of ord
chr(cp) == CHOOSE c \in DOMAIN ord : ord[c] = cp

\* the UTF-8 encoding of one code point
EncodeCodePoint(cp) ==
    IF cp < 128 THEN <<cp>>
    ELSE IF cp < 2048 THEN <<192 + (cp \div 64), 128 + (cp % 64)>>
    ELSE IF cp < 65536 THEN
        <<224 + (cp \div 4096), 128 + ((cp \div 64) % 64), 128 + (cp % 64)>>
    ELSE <<240 + (cp \div 262144), 128 + ((cp \div 4096) % 64),
           128 + ((cp \div 64) % 64), 128 + (cp % 64)>>

RECURSIVE EncodeFrom(_, _, _)
EncodeFrom(s, i, acc) ==
    IF i > Len(s) THEN acc
    ELSE EncodeFrom(s, i + 1, acc \o EncodeCodePoint(ord[Char(s, i)]))

\* str.encode('utf-8')
encode_utf8(s) == EncodeFrom(s, 1, <<>>)

\* number of continuation bytes a lead byte announces (0: not a lead byte)
Need(b) ==
    IF b >= 194 /\ b <= 223 THEN 1
    ELSE IF b >= 224 /\ b <= 239 THEN 2
    ELSE IF b >= 240 /\ b <= 244 THEN 3
    ELSE 0

\* whether c may be the k-th continuation byte after lead byte b
ContinuationOk(b, k, c) ==
    IF k = 1 /\ b = 224 THEN c >= 160 /\ c <= 191
    ELSE IF k = 1 /\ b = 237 THEN c >= 128 /\ c <= 159
    ELSE IF k = 1 /\ b = 240 THEN c >= 144 /\ c <= 191
    ELSE IF k = 1 /\ b = 244 THEN c >= 128 /\ c <= 143
    ELSE c >= 128 /\ c <= 191

\* how many of the announced continuation bytes are present and valid at i
RECURSIVE ValidContinuations(_, _, _)
ValidContinuations(bytes, i, k) ==
    IF k >= Need(bytes[i]) \/ i + k + 1 > Len(bytes) THEN k
    ELSE IF ContinuationOk(bytes[i], k + 1, bytes[i + k + 1])
         THEN ValidContinuations(bytes, i, k + 1)
         ELSE k

DecodeCodePoint(bytes, i) ==
    LET b == bytes[i] n == Need(b) IN
    IF n = 1 THEN (b - 192) * 64 + (bytes[i + 1] - 128)
    ELSE IF n = 2 THEN
        (b - 224) * 4096 + (bytes[i + 1] - 128) * 64 + (bytes[i + 2] - 128)
    ELSE (b - 240) * 262144 + (bytes[i + 1] - 128) * 4096
         + (bytes[i + 2] - 128) * 64 + (bytes[i + 3] - 128)

\* bytes.decode('utf-8', errors='ignore'): an undecodable byte sequence is
\* dropped and decoding resumes after it
RECURSIVE DecodeFrom(_, _, _)
DecodeFrom(bytes, i, acc) ==
    IF i > Len(bytes) THEN acc
    ELSE LET b == bytes[i] IN
         IF b < 128 THEN DecodeFrom(bytes, i + 1, acc \o chr(b))
         ELSE IF Need(b) = 0 THEN DecodeFrom(bytes, i + 1, acc)
         ELSE LET k == ValidContinuations(bytes, i, 0) IN
              IF k = Need(b)
              THEN DecodeFrom(bytes, i + 1 + k,
                              acc \o chr(DecodeCodePoint(bytes, i)))
              ELSE IF i + k = Len(bytes)
              THEN acc
              ELSE DecodeFrom(bytes, i + 1 + k, acc)

decode_utf8_ignore(bytes) == DecodeFrom(bytes, 1, "")

\* seq[start:stop] of Python, with its clamping of both indices
PySlice(seq, start, stop) ==
    LET n == Len(seq)
        lo == IF start < 0 THEN (IF start + n < 0 THEN 0 ELSE start + n)
              ELSE (IF start > n THEN n ELSE start)
        hi == IF stop < 0 THEN (IF stop + n < 0 THEN 0 ELSE stop + n)
              ELSE (IF stop > n THEN n ELSE stop)
    IN  IF lo < hi THEN SubSeq(seq, lo + 1, hi) ELSE <<>>

-----------------------------------------------------------------------------
(* extract_declaration                                                     *)

Returned(v) == [raised |-> FALSE, value |-> v]
Raised == [raised |-> TRUE]

\* a variant that slices characters of the text, not bytes of its encoding
extract_declaration_chars(source_code, offset, length) ==
    IF ~(IsInt(offset) /\ IsInt(length)) THEN Raised
    ELSE LET lo == IF offset.value > Len(source_code) THEN Len(source_code)
                   ELSE offset.value
             hi == IF offset.value + length.value > Len(source_code)
                   THEN Len(source_code) ELSE offset.value + length.value
         IN  Returned(IF lo < hi /\ lo >= 0 THEN SubSeq(source_code, lo + 1, hi)
                      ELSE "")

\* offset + length and the slice raise TypeError unless both are integers
extract_declaration(source_code, offset, length) ==
    IF ~(IsInt(offset) /\ IsInt(length)) THEN Raised
    ELSE LET source_bytes == encode_utf8(source_code)
             decl_bytes == PySlice(source_bytes, offset.value,
                                   offset.value + length.value)
         IN  Returned(decode_utf8_ignore(decl_bytes))

ExtractSources == {"abcdef", "aé€b", "€é", "é=€"}
ExtractOffsets == {JInt(n) : n \in (0 - 2)..MaxOffset} \cup {JStr("10")}
ExtractLengths == {JInt(n) : n \in (0 - 1)..MaxLength} \cup {JStr("8")}

ExIdle ==
    /\ ex_source_code = "" /\ ex_offset = None /\ ex_length = None
    /\ ex_result = [pending |-> TRUE] /\ ex_pc = "idle"

ExStart ==
    /\ ex_source_code \in ExtractSources
    /\ ex_offset \in ExtractOffsets
    /\ ex_length \in ExtractLengths
    /\ ex_result = [pending |-> TRUE]
    /\ ex_pc = "call"

ExtractCall ==
    /\ ex_pc = "call"
    /\ ex_result' = extract_declaration(ex_source_code, ex_offset, ex_length)
    /\ ex_pc' = "returned"
    /\ UNCHANGED <<ex_source_code, ex_offset, ex_length, ex_others>>

-----------------------------------------------------------------------------
(* Text helpers: str.replace, startswith, the `in` test, and the pieces of  *)
(* Python's re that the scripts use.                                       *)

CharsOf(s) == {Char(s, i) : i \in 1..Len(s)}

\* \w and \d of a str pattern
WordChars ==
    CharsOf("abcdefghijklmnopqrstuvwxyzABCDEFGHIJKLMNOPQRSTUVWXYZ0123456789_é")
Digits == CharsOf("0123456789")
IsWordChar(c) == c \in WordChars
IsDigit(c) == c \in Digits

\* \b between the p-th and the (p+1)-th character of s, p in 0..Len(s)
WordBoundary(s, p) ==
    LET before == p >= 1 /\ IsWordChar(Char(s, p))
        after == p < Len(s) /\ IsWordChar(Char(s, p + 1))
    IN  before # after

\* whether sub occurs in s at position i
MatchesAt(s, i, sub) ==
    /\ i >= 1
    /\ i + Len(sub) - 1 <= Len(s)
    /\ SubSeq(s, i, i + Len(sub) - 1) = sub

\* s.startswith(prefix)
StartsWith(s, prefix) == MatchesAt(s, 1, prefix)

\* sub in s
Contains(s, sub) == \E i \in 1..(Len(s) + 1) : MatchesAt(s, i, sub)

\* s.find(sub) + 1: the first position of sub in s, 0 when there is none
Find(s, sub) ==
    IF Contains(s, sub)
    THEN CHOOSE i \in 1..(Len(s) + 1) :
            /\ MatchesAt(s, i, sub)
            /\ \A j \in 1..(i - 1) : ~MatchesAt(s, j, sub)
    ELSE 0

Min(S) == CHOOSE x \in S : \A y \in S : x <= y
Max(S) == CHOOSE x \in S : \A y \in S : x >= y

\* re.sub over s, given for every position i the end of the pattern's match
\* that starts at i (0: no match there): the leftmost match at or after
\* `from` is replaced by open, the matched text when keep, and close; the
\* search resumes after the match
RECURSIVE ReSubFrom(_, _, _, _, _, _)
ReSubFrom(s, ends, open, keep, close, from) ==
    LET M == {i \in from..Len(s) : ends[i] > 0} IN
    IF M = {} THEN SubSeq(s, from, Len(s))
    ELSE LET i == Min(M) IN
         SubSeq(s, from, i - 1) \o open
         \o (IF keep THEN SubSeq(s, i, ends[i]) ELSE "") \o close
         \o ReSubFrom(s, ends, open, keep, close, ends[i] + 1)

\* s.replace(old, new) for a one-character old
Replace(s, old, new) ==
    ReSubFrom(s, [i \in 1..Len(s) |-> IF Char(s, i) = old THEN i ELSE 0],
              new, FALSE, "", 1)

-----------------------------------------------------------------------------
(* highlight_swift                                                         *)

keywords == <<
    "class", "struct", "enum", "protocol", "extension", "func", "var", "let",
    "if", "else", "for", "while", "return", "import", "public", "private",
    "internal", "fileprivate", "static", "final", "override", "init", "deinit",
    "self", "super", "true", "false", "nil", "as", "is", "switch", "case",
    "default", "break", "continue", "guard", "defer", "do", "try", "catch",
    "throw", "throws", "rethrows", "async", "await", "mutating", "nonmutating",
    "convenience", "required", "lazy", "weak", "unowned", "indirect" >>

\* code.replace('&', '&amp;').replace('<', '&lt;').replace('>', '&gt;')
EscapeHtml(code) ==
    Replace(Replace(Replace(code, "&", "&amp;"), "<", "&lt;"), ">", "&gt;")

KeywordSpan(kw) == "<span class=\"kd\">" \o kw \o "</span>"

\* where \bkw\b matches in code
KeywordEnds(code, kw) ==
    [i \in 1..Len(code) |->
        IF /\ MatchesAt(code, i, kw)
           /\ WordBoundary(code, i - 1)
           /\ WordBoundary(code, i + Len(kw) - 1)
        THEN i + Len(kw) - 1 ELSE 0]

\* re.sub(r'\b' + kw + r'\b', f'<span class="kd">{kw}</span>', code)
SubKeyword(code, kw) ==
    ReSubFrom(code, KeywordEnds(code, kw), KeywordSpan(kw), FALSE, "", 1)

\* for kw in keywords: code = re.sub(...)
RECURSIVE HighlightKeywordsFrom(_, _)
HighlightKeywordsFrom(code, k) ==
    IF Len(code) = 0 \/ k > Len(keywords) THEN code
    ELSE HighlightKeywordsFrom(SubKeyword(code, keywords[k]), k + 1)

HighlightKeywords(code) == HighlightKeywordsFrom(code, 1)

\* the number of consecutive backslashes that end just before position j,
\* counted no further back than position lo
BackslashRun(code, j, lo) ==
    (j - 1) - Max({k \in (lo - 1)..(j - 1) : k = lo - 1 \/ Char(code, k) # "\\"})

\* position j starts a fresh ([^"\\]|\\.) item of a literal opened at i
ItemStart(code, i, j) == BackslashRun(code, j, i + 1) % 2 = 0

\* the closing quote of the match of "([^"\\]|\\.)*" at an opening quote i:
\* the first quote that starts an item, unless an item before it is a
\* backslash with a line break after it (. takes no line break); 0: no match
StringEnd(code, i) ==
    LET Q == {j \in (i + 1)..Len(code) :
                Char(code, j) = "\"" /\ ItemStart(code, i, j)} IN
    IF Q = {} THEN 0
    ELSE LET e == Min(Q) IN
         IF \E k \in (i + 1)..(e - 1) :
               /\ Char(code, k) = "\\"
               /\ ItemStart(code, i, k)
               /\ Char(code, k + 1) = "\n"
         THEN 0 ELSE e

StringEnds(code) ==
    [i \in 1..Len(code) |->
        IF Char(code, i) = "\"" THEN StringEnd(code, i) ELSE 0]

\* re.sub(r'"([^"\\]|\\.)*"', <span class="s">match</span>, code)
HighlightStrings(code) ==
    ReSubFrom(code, StringEnds(code), "<span class=\"s\">", TRUE, "</span>", 1)

\* the last position of the line that position i is on
LineEnd(code, i) ==
    Min({j \in i..Len(code) : j = Len(code) \/ Char(code, j + 1) = "\n"})

CommentEnds(code) ==
    [i \in 1..Len(code) |->
        IF MatchesAt(code, i, "//") THEN LineEnd(code, i + 1) ELSE 0]

\* re.sub(r'//.*$', <span class="c1">match</span>, code, flags=re.MULTILINE)
HighlightComments(code) ==
    ReSubFrom(code, CommentEnds(code), "<span class=\"c1\">", TRUE, "</span>", 1)

\* the number of digits of code from position i on
DigitRun(code, i) ==
    Min({j \in i..(Len(code) + 1) :
            j > Len(code) \/ ~IsDigit(Char(code, j))}) - i

\* the largest m' <= m with a word boundary after position base + m', or -1
BoundaryDown(code, base, m) ==
    LET B == {k \in 0..m : WordBoundary(code, base + k)} IN
    IF B = {} THEN 0 - 1 ELSE Max(B)

\* the end of the match of \d+\.?\d*\b at i whose \d+ takes at most n digits,
\* in the order the backtracking matcher tries them; 0 when there is none
RECURSIVE NumberEnd(_, _, _)
NumberEnd(code, i, n) ==
    IF n < 1 THEN 0
    ELSE LET p == i + n - 1
             dotted == IF MatchesAt(code, p + 1, ".")
                       THEN BoundaryDown(code, p + 1, DigitRun(code, p + 2))
                       ELSE 0 - 1
             plain == BoundaryDown(code, p, DigitRun(code, p + 1))
         IN  IF dotted >= 0 THEN p + 1 + dotted
             ELSE IF plain >= 0 THEN p + plain
             ELSE NumberEnd(code, i, n - 1)

NumberEnds(code) ==
    [i \in 1..Len(code) |->
        IF IsDigit(Char(code, i)) /\ WordBoundary(code, i - 1)
        THEN NumberEnd(code, i, DigitRun(code, i)) ELSE 0]

\* re.sub(r'\b\d+\.?\d*\b', <span class="m">match</span>, code)
HighlightNumbers(code) ==
    ReSubFrom(code, NumberEnds(code), "<span class=\"m\">", TRUE, "</span>", 1)

WrapPre(code) == "<pre class=\"highlight swift\"><code>" \o code \o "</code></pre>"

highlight_swift(code) ==
    WrapPre(HighlightNumbers(HighlightComments(HighlightStrings(
        HighlightKeywords(EscapeHtml(code))))))


\* the stages of highlight_swift, one assignment to code each
HlIdle == hl_input = "" /\ hl_code = "" /\ hl_pc = "idle"

HighlightInputs ==
    {keywords[k] : k \in 1..Len(keywords)}
    \cup {"func f()", "let s = \"a<b\" // x", "var n = 12.5", "classy x1"}

HlStart == hl_input \in HighlightInputs /\ hl_code = hl_input /\ hl_pc = "escape"

HlEscape ==
    /\ hl_pc = "escape"
    /\ hl_code' = EscapeHtml(hl_code)
    /\ hl_pc' = "keywords"
    /\ UNCHANGED <<hl_input, hl_others>>

HlKeywords ==
    /\ hl_pc = "keywords"
    /\ hl_code' = HighlightKeywords(hl_code)
    /\ hl_pc' = "strings"
    /\ UNCHANGED <<hl_input, hl_others>>

HlStrings ==
    /\ hl_pc = "strings"
    /\ hl_code' = HighlightStrings(hl_code)
    /\ hl_pc' = "comments"
    /\ UNCHANGED <<hl_input, hl_others>>

HlComments ==
    /\ hl_pc = "comments"
    /\ hl_code' = HighlightComments(hl_code)
    /\ hl_pc' = "numbers"
    /\ UNCHANGED <<hl_input, hl_others>>

HlNumbers ==
    /\ hl_pc = "numbers"
    /\ hl_code' = HighlightNumbers(hl_code)
    /\ hl_pc' = "return"
    /\ UNCHANGED <<hl_input, hl_others>>

HlReturn ==
    /\ hl_pc = "return"
    /\ hl_code' = WrapPre(hl_code)
    /\ hl_pc' = "returned"
    /\ UNCHANGED <<hl_input, hl_others>>

-----------------------------------------------------------------------------
(* merge_structure_and_docs                                                *)

\* build_structure_map(item): the item under its key.usr, then its
\* key.substructure left to right; a later item replaces an earlier one
RECURSIVE build_structure_map(_, _)
RECURSIVE BuildAll(_, _, _)
\* a variant that keeps the first item seen for an identifier
build_structure_map_keep_first(item, map) ==
    LET own == IF "key.usr" \in DOMAIN item /\ item["key.usr"] \notin DOMAIN map
               THEN Put(map, item["key.usr"], item) ELSE map
    IN  IF "key.substructure" \in DOMAIN item
        THEN BuildAll(item["key.substructure"], 1, own)
        ELSE own

build_structure_map(item, map) ==
    LET own == IF "key.usr" \in DOMAIN item
               THEN Put(map, item["key.usr"], item) ELSE map
    IN  IF "key.substructure" \in DOMAIN item
        THEN BuildAll(item["key.substructure"], 1, own)
        ELSE own

BuildAll(items, k, map) ==
    IF k > Len(items) THEN map
    ELSE BuildAll(items, k + 1, build_structure_map(items[k], map))

\* a list of roots or a single root
BuildStructureMapOf(s) ==
    IF s.kind = "list" THEN BuildAll(s.items, 1, EmptyDict)
    ELSE build_structure_map(s.item, EmptyDict)

\* usr = doc_item.get('key.usr'); structure_map.get(usr) if usr else None:
\* an empty identifier is not looked up
HasStructItem(doc_item, map) ==
    /\ "key.usr" \in DOMAIN doc_item
    /\ doc_item["key.usr"] # ""
    /\ doc_item["key.usr"] \in DOMAIN map

\* a variant that lets the record's own offset win over the structure item's
ResolveOffset_own_first(doc_item, map) ==
    IF "key.offset" \in DOMAIN doc_item /\ "key.length" \in DOMAIN doc_item
    THEN doc_item["key.offset"]
    ELSE IF HasStructItem(doc_item, map)
    THEN Get(map[doc_item["key.usr"]], "key.offset")
    ELSE None

\* a variant that falls back on the record's own offset when the structure
\* item has none
ResolveOffset_fallback(doc_item, map) ==
    IF /\ HasStructItem(doc_item, map)
       /\ Get(map[doc_item["key.usr"]], "key.offset") # None
    THEN Get(map[doc_item["key.usr"]], "key.offset")
    ELSE IF "key.offset" \in DOMAIN doc_item /\ "key.length" \in DOMAIN doc_item
    THEN doc_item["key.offset"]
    ELSE None

\* offset and length of the structure item when there is one, else the
\* record's own when it has both keys, else None
ResolveOffset(doc_item, map) ==
    IF HasStructItem(doc_item, map)
    THEN Get(map[doc_item["key.usr"]], "key.offset")
    ELSE IF "key.offset" \in DOMAIN doc_item /\ "key.length" \in DOMAIN doc_item
    THEN doc_item["key.offset"]
    ELSE None

ResolveLength(doc_item, map) ==
    IF HasStructItem(doc_item, map)
    THEN Get(map[doc_item["key.usr"]], "key.length")
    ELSE IF "key.offset" \in DOMAIN doc_item /\ "key.length" \in DOMAIN doc_item
    THEN doc_item["key.length"]
    ELSE None

\* a variant that builds a fresh record of the identifier and the three fields
Enriched_fresh_record(doc_item, decl_code) ==
    LET kept == [k \in DOMAIN doc_item \cap {"key.usr"} |-> doc_item[k]] IN
    Put(Put(Put(kept, "key.parsed_declaration", decl_code),
            "key.annotated_decl", highlight_swift(decl_code)),
        "key.swift_declaration", decl_code)

\* the three assignments of a successful extraction
Enriched(doc_item, decl_code) ==
    Put(Put(Put(doc_item, "key.parsed_declaration", decl_code),
            "key.annotated_decl", highlight_swift(decl_code)),
        "key.swift_declaration", decl_code)

Node(usr, off, len) ==
    [k \in {"key.usr", "key.offset", "key.length"} |->
        IF k = "key.usr" THEN usr ELSE IF k = "key.offset" THEN off ELSE len]
WithChildren(node, children) == Put(node, "key.substructure", children)
Without(d, k) == [j \in DOMAIN d \ {k} |-> d[j]]
Root(node) == [kind |-> "dict", item |-> node]
Roots(nodes) == [kind |-> "list", items |-> nodes]

Structures ==
    { Root(Node("s1", JInt(10), JInt(8))),
      Roots(<<WithChildren(Node("s1", JInt(0), JInt(4)),
                  <<Node("s2", JInt(5), JInt(3)),
                    Node("s1", JInt(10), JInt(8))>>),
              Without(Node("", JInt(3), JInt(2)), "key.usr")>>),
      Root(WithChildren(Without(Node("s1", None, JInt(8)), "key.offset"),
                  <<Node("", JInt(11), JInt(2)),
                    Node("s2", JInt(100), JInt(4))>>)),
      Roots(<<Node("s1", JStr("10"), JInt(8)), Node("s2", JInt(14), JInt(9))>>),
      Root(Node("s2", JInt(12), None)),
      Roots(<<>>) }

Doc(usr, key_name) ==
    [k \in {"key.usr", "key.name"} |-> IF k = "key.usr" THEN usr ELSE key_name]
Own(d, off, len) == Put(Put(d, "key.offset", off), "key.length", len)

DocItems ==
    { Doc("s1", "f"),
      Own(Doc("s1", "f"), JInt(0), JInt(4)),
      Own(Without(Doc("", "g"), "key.usr"), JInt(10), JInt(8)),
      Doc("s2", "h"),
      Own(Doc("", "k"), JInt(13), JInt(3)),
      Put(Doc("s3", "m"), "key.offset", JInt(5)),
      Own(Doc("s3", "m"), JInt(2), JStr("8")),
      Own(Doc("s2", "h"), None, JInt(4)) }

DocLists == UNION {[1..n -> DocItems] : n \in 0..MaxDocs}

Sources == {"          func f()", "é€ //x\nfunc f()"}

MgIdle ==
    /\ structure = Roots(<<>>) /\ docs = <<>> /\ mg_source_code = ""
    /\ structure_map = EmptyDict /\ result = <<>>
    /\ mg_offset = None /\ mg_length = None /\ doc_idx = 0
    /\ warnings = <<>> /\ mg_pc = "idle" /\ docs_in = <<>>

MgStart ==
    /\ structure \in Structures
    /\ docs \in DocLists
    /\ mg_source_code \in Sources
    /\ structure_map = EmptyDict /\ result = <<>>
    /\ mg_offset = None /\ mg_length = None /\ doc_idx = 0
    /\ warnings = <<>> /\ mg_pc = "build" /\ docs_in = docs

\* lines 90-108: the structure map, then result = []
BuildStructureMap ==
    /\ mg_pc = "build"
    /\ structure_map' = BuildStructureMapOf(structure)
    /\ result' = <<>>
    /\ doc_idx' = 1
    /\ mg_pc' = "loop"
    /\ UNCHANGED <<structure, docs, mg_source_code, mg_offset, mg_length, warnings,
                   docs_in, mg_others>>

\* an iteration of the loop whose offset and length are resolved and whose
\* extraction returns: the three fields are set on the record itself
MergeEnrich ==
    /\ mg_pc = "loop"
    /\ doc_idx <= Len(docs)
    /\ LET doc_item == docs[doc_idx]
           off == ResolveOffset(doc_item, structure_map)
           len == ResolveLength(doc_item, structure_map)
       IN  /\ off # None
           /\ len # None
           /\ LET r == extract_declaration(mg_source_code, off, len) IN
                /\ ~r.raised
                /\ docs' = [docs EXCEPT ![doc_idx] = Enriched(doc_item, r.value)]
           /\ mg_offset' = off
           /\ mg_length' = len
    /\ result' = Append(result, doc_idx)
    /\ doc_idx' = doc_idx + 1
    /\ UNCHANGED <<structure, mg_source_code, structure_map, warnings, mg_pc,
                   docs_in, mg_others>>

\* an iteration whose extraction raises: the except clause prints a warning
MergeExtractFailed ==
    /\ mg_pc = "loop"
    /\ doc_idx <= Len(docs)
    /\ LET doc_item == docs[doc_idx]
           off == ResolveOffset(doc_item, structure_map)
           len == ResolveLength(doc_item, structure_map)
       IN  /\ off # None
           /\ len # None
           /\ extract_declaration(mg_source_code, off, len).raised
           /\ mg_offset' = off
           /\ mg_length' = len
    /\ warnings' = Append(warnings, doc_idx)
    /\ result' = Append(result, doc_idx)
    /\ doc_idx' = doc_idx + 1
    /\ UNCHANGED <<structure, docs, mg_source_code, structure_map, mg_pc,
                   docs_in, mg_others>>

\* a variant that appends only the records it enriched
MergePassThrough_drop ==
    /\ mg_pc = "loop"
    /\ doc_idx <= Len(docs)
    /\ LET doc_item == docs[doc_idx]
           off == ResolveOffset(doc_item, structure_map)
           len == ResolveLength(doc_item, structure_map)
       IN  /\ off = None \/ len = None
           /\ mg_offset' = off
           /\ mg_length' = len
    /\ doc_idx' = doc_idx + 1
    /\ UNCHANGED <<structure, docs, mg_source_code, structure_map, warnings,
                   mg_pc, docs_in, result, mg_others>>

\* an iteration with offset or length None: the record is appended as it is
MergePassThrough ==
    /\ mg_pc = "loop"
    /\ doc_idx <= Len(docs)
    /\ LET doc_item == docs[doc_idx]
           off == ResolveOffset(doc_item, structure_map)
           len == ResolveLength(doc_item, structure_map)
       IN  /\ off = None \/ len = None
           /\ mg_offset' = off
           /\ mg_length' = len
    /\ result' = Append(result, doc_idx)
    /\ doc_idx' = doc_idx + 1
    /\ UNCHANGED <<structure, docs, mg_source_code, structure_map, warnings,
                   mg_pc, docs_in, mg_others>>

\* return result
MergeReturn ==
    /\ mg_pc = "loop"
    /\ doc_idx > Len(docs)
    /\ mg_pc' = "done"
    /\ UNCHANGED <<structure, docs, mg_source_code, structure_map, result, mg_offset,
                   mg_length, doc_idx, warnings, docs_in, mg_others>>

-----------------------------------------------------------------------------
(* main() of the merge tool, from the parsed command line on.  A JSON      *)
(* argument is given by what json.loads makes of it: a dict, a list, a     *)
(* number, string, boolean or null, or no value at all when the text is    *)
(* not JSON.  main_pc runs parse, merge, merging, exited.                  *)

JBool(b) == [type |-> "bool", value |-> b]
Unparsable == [kind |-> "invalid"]

\* isinstance(v, dict), isinstance(v, list)
IsDictValue(v) == "kind" \in DOMAIN v /\ v.kind = "dict"
IsListValue(v) == "kind" \in DOMAIN v /\ v.kind = "list"

\* lines 163-165: the structure as merged
NormalizeStructure(v) ==
    IF IsDictValue(v) \/ IsListValue(v) THEN v ELSE Root(EmptyDict)

\* a variant that drops a single mapping
NormalizeDocs_mapping_dropped(v) ==
    IF IsListValue(v) THEN v.items ELSE <<>>

\* lines 168-173: the doc list as merged; an empty dict is falsy
NormalizeDocs(v) ==
    IF IsDictValue(v)
    THEN IF v.item # EmptyDict THEN <<v.item>> ELSE <<>>
    ELSE IF IsListValue(v) THEN v.items
    ELSE <<>>

\* build_structure_map tests 'key.usr' in item: every item it visits has to
\* be a dict (or another container), a number raises TypeError
RECURSIVE Walkable(_)
Walkable(item) ==
    /\ "type" \notin DOMAIN item
    /\ "key.substructure" \in DOMAIN item =>
          \A k \in 1..Len(item["key.substructure"]) :
              Walkable(item["key.substructure"][k])

WalkableStructure(s) ==
    IF s.kind = "list" THEN \A k \in 1..Len(s.items) : Walkable(s.items[k])
    ELSE Walkable(s.item)

Scalars == {JInt(5), JStr("x"), JBool(TRUE), None}

StructureArgs ==
    Structures \cup Scalars \cup {Unparsable, Root(EmptyDict), Roots(<<JInt(5)>>)}

DocsArgs ==
    { Root(Doc("s1", "f")), Root(EmptyDict), Root(Own(Doc("s3", "m"), JInt(0), JInt(4))),
      Roots(<<>>), Roots(<<Doc("s1", "f")>>),
      Roots(<<Doc("s2", "h"), Own(Doc("", "k"), JInt(13), JInt(3))>>),
      Unparsable } \cup Scalars

MnIdle ==
    /\ args = [structure |-> Unparsable, docs |-> Unparsable, source |-> ""]
    /\ stderr = <<>>
    /\ output = [state |-> "absent"]
    /\ exit_code = None
    /\ main_pc = "idle"

\* line 155: the four flags are given
MnStart ==
    /\ args \in [structure : StructureArgs, docs : DocsArgs,
                 source : {"          func f()"}]
    /\ stderr = <<>>
    /\ output = [state |-> "absent"]
    /\ exit_code = None
    /\ main_pc = "parse"

\* lines 159-160 raise, lines 184-186: the error summary and exit code 1
MainParseFails ==
    /\ main_pc = "parse"
    /\ args.structure = Unparsable \/ args.docs = Unparsable
    /\ stderr' = Append(stderr, "error")
    /\ exit_code' = JInt(1)
    /\ main_pc' = "exited"
    /\ UNCHANGED <<args, output, mg_vars, mn_others>>

\* a variant that gives up on an input of the wrong shape
MainNormalize_aborts ==
    /\ main_pc = "parse"
    /\ args.structure # Unparsable
    /\ args.docs # Unparsable
    /\ IF args.structure \in Scalars \/ args.docs \in Scalars
       THEN /\ stderr' = Append(stderr, "error")
            /\ exit_code' = JInt(1)
            /\ main_pc' = "exited"
            /\ UNCHANGED <<structure, docs>>
       ELSE /\ structure' = NormalizeStructure(args.structure)
            /\ docs' = NormalizeDocs(args.docs)
            /\ main_pc' = "merge"
            /\ UNCHANGED <<stderr, exit_code>>
    /\ UNCHANGED <<args, output, mn_others>>
    /\ UNCHANGED <<mg_source_code, structure_map, result, mg_offset, mg_length,
                   doc_idx, warnings, mg_pc, docs_in>>

\* lines 159-173: both arguments parse; a structure that is no dict and no
\* list becomes {} and a doc input that is no dict and no list becomes [],
\* each with a warning; a dict of docs is wrapped in a list
MainNormalize ==
    /\ main_pc = "parse"
    /\ args.structure # Unparsable
    /\ args.docs # Unparsable
    /\ structure' = NormalizeStructure(args.structure)
    /\ docs' = NormalizeDocs(args.docs)
    /\ stderr' = stderr
          \o (IF IsDictValue(args.structure) \/ IsListValue(args.structure)
              THEN <<>> ELSE <<"warning_structure">>)
          \o (IF IsDictValue(args.docs) \/ IsListValue(args.docs)
              THEN <<>> ELSE <<"warning_docs">>)
    /\ main_pc' = "merge"
    /\ UNCHANGED <<args, output, exit_code, mn_others>>
    /\ UNCHANGED <<mg_source_code, structure_map, result, mg_offset, mg_length,
                   doc_idx, warnings, mg_pc, docs_in>>

\* line 176: merge_structure_and_docs is called
MainCallMerge ==
    /\ main_pc = "merge"
    /\ WalkableStructure(structure)
    /\ mg_source_code' = args.source
    /\ docs_in' = docs
    /\ mg_pc' = "build"
    /\ main_pc' = "merging"
    /\ UNCHANGED <<structure, docs, structure_map, result, mg_offset, mg_length,
                   doc_idx, warnings>>
    /\ UNCHANGED <<mn_others, args, stderr, output, exit_code>>

\* line 176 with a structure that build_structure_map cannot walk: the
\* TypeError of line 94 ends the call, lines 184-186 follow
MainMergeRaises ==
    /\ main_pc = "merge"
    /\ ~WalkableStructure(structure)
    /\ stderr' = Append(stderr, "error")
    /\ exit_code' = JInt(1)
    /\ main_pc' = "exited"
    /\ UNCHANGED <<args, output, mg_vars, mn_others>>

\* the list merge_structure_and_docs returned
Merged == [i \in 1..Len(result) |-> docs[result[i]]]

\* lines 179-182 and the end of main: the merged list is written, the
\* success summary printed, the exit code is 0
MainWrite ==
    /\ main_pc = "merging"
    /\ mg_pc = "done"
    /\ output' = [state |-> "written", records |-> Merged]
    /\ stderr' = Append(stderr, "success")
    /\ exit_code' = JInt(0)
    /\ main_pc' = "exited"
    /\ UNCHANGED <<args, mg_vars, mn_others>>

\* a variant that reports success although the write failed
MainWriteFails_swallowed ==
    /\ main_pc = "merging"
    /\ mg_pc = "done"
    /\ output' \in {[state |-> "absent"], [state |-> "partial"]}
    /\ stderr' = Append(stderr, "success")
    /\ exit_code' = JInt(0)
    /\ main_pc' = "exited"
    /\ UNCHANGED <<args, mg_vars, mn_others>>

\* lines 179-180 raise, lines 184-186: open() fails and there is no file, or
\* the write fails after open() and leaves a part of it
MainWriteFails ==
    /\ main_pc = "merging"
    /\ mg_pc = "done"
    /\ output' \in {[state |-> "absent"], [state |-> "partial"]}
    /\ stderr' = Append(stderr, "error")
    /\ exit_code' = JInt(1)
    /\ main_pc' = "exited"
    /\ UNCHANGED <<args, mg_vars, mn_others>>

-----------------------------------------------------------------------------
(* replace_undocumented_in_html.  A page is the part of a rendered page     *)
(* that the function reads: the heading and the first paragraph of the top *)
(* section-content, and the li.item elements, each with the text of its    *)
(* a.token link, its div.abstract and the first paragraph of that.  A      *)
(* paragraph is the list of its children, strings and code elements.       *)

TextNode(s) == [tag |-> "text", string |-> s]
CodeTag(s) == [tag |-> "code", string |-> s]
Para(parts) == [present |-> TRUE, parts |-> parts]
NoPara == [present |-> FALSE]
Token(s) == [present |-> TRUE, text |-> s]
NoToken == [present |-> FALSE]

Whitespace == {" ", "\n", "\t"}

\* s.strip()
Strip(s) ==
    LET K == {i \in 1..Len(s) : Char(s, i) \notin Whitespace} IN
    IF K = {} THEN "" ELSE SubSeq(s, Min(K), Max(K))

\* tag.get_text(): the strings of the children, joined
RECURSIVE GetTextFrom(_, _)
GetTextFrom(parts, k) ==
    IF k > Len(parts) THEN ""
    ELSE parts[k].string \o GetTextFrom(parts, k + 1)

GetText(parts) == GetTextFrom(parts, 1)

\* find('p', string='Undocumented'): the paragraph's .string, which is that
\* of its only child, equals the placeholder
IsUndocumentedString(p) ==
    p.present /\ Len(p.parts) = 1 /\ p.parts[1].string = "Undocumented"

\* get_text().strip() == 'Undocumented'
IsUndocumentedText(p) == p.present /\ Strip(GetText(p.parts)) = "Undocumented"

\* convert_backticks_to_code: the while loop from position i, with the
\* locals current_text, in_code and parts
RECURSIVE ConvertFrom(_, _, _, _, _)
ConvertFrom(text, i, current_text, in_code, parts) ==
    IF i > Len(text)
    THEN IF current_text # "" THEN Append(parts, TextNode(current_text))
         ELSE parts
    ELSE IF Char(text, i) = Backtick
    THEN ConvertFrom(text, i + 1, "", ~in_code,
            IF current_text # "" THEN Append(parts, TextNode(current_text))
            ELSE parts)
    ELSE IF in_code
    THEN LET end == Find(SubSeq(text, i, Len(text)), Backtick) IN
         IF end # 0
         THEN ConvertFrom(text, i + end, current_text, FALSE,
                  Append(parts, CodeTag(SubSeq(text, i, i + end - 2))))
         ELSE ConvertFrom(text, i + 1, current_text \o Char(text, i),
                          in_code, parts)
    ELSE ConvertFrom(text, i + 1, current_text \o Char(text, i), in_code, parts)

convert_backticks_to_code(text) == ConvertFrom(text, 1, "", FALSE, <<>>)

\* the comment map is a dict in insertion order: a sequence of entries with
\* distinct keys
Entry(k, v) == [key |-> k, value |-> v]
KeysOf(map) == {map[i].key : i \in 1..Len(map)}
\* map[k]
Lookup(map, k) == (CHOOSE i \in 1..Len(map) : map[i].key = k)

Found(v) == [found |-> TRUE, value |-> v]
NotFound == [found |-> FALSE]

\* re.sub(r'\(.*\)$', '', name) on a stripped name: the leftmost ( with no
\* line break after it starts the match when the name ends with ), and the
\* name is cut there
StripParams(original_name) ==
    LET n == Len(original_name)
        M == {i \in 1..n :
                /\ Char(original_name, i) = "("
                /\ Char(original_name, n) = ")"
                /\ \A j \in (i + 1)..n : Char(original_name, j) # "\n"}
    IN  IF M = {} THEN original_name
        ELSE SubSeq(original_name, 1, Min(M) - 1)

\* original_name.split('(')[0]
BeforeParen(original_name) ==
    LET i == Find(original_name, "(") IN
    IF i = 0 THEN original_name ELSE SubSeq(original_name, 1, i - 1)

\* a variant that only accepts a key the name starts with
PartialMatch_prefix_only(stripped, map) ==
    LET M == {i \in 1..Len(map) : StartsWith(stripped, map[i].key)}
    IN  IF M = {} THEN NotFound ELSE Found(map[Min(M)].value)

\* a variant without the break: the last matching key wins
PartialMatch_last(stripped, map) ==
    LET M == {i \in 1..Len(map) :
                StartsWith(stripped, map[i].key) \/ Contains(stripped, map[i].key)}
    IN  IF M = {} THEN NotFound ELSE Found(map[Max(M)].value)

\* lines 201-205: the first key of the map, in insertion order, that name
\* starts with or contains
PartialMatch(stripped, map) ==
    LET M == {i \in 1..Len(map) :
                StartsWith(stripped, map[i].key) \/ Contains(stripped, map[i].key)}
    IN  IF M = {} THEN NotFound ELSE Found(map[Min(M)].value)

\* a variant that goes straight to the partial match
MatchDoc_partial_only(original_name, map) ==
    PartialMatch(StripParams(original_name), map)

\* lines 186-205: doc for the display name original_name, a documentation
\* text being never empty
MatchDoc(original_name, map) ==
    LET stripped == StripParams(original_name) IN
    IF stripped \in KeysOf(map) THEN Found(map[Lookup(map, stripped)].value)
    ELSE IF /\ Contains(original_name, "(")
            /\ BeforeParen(original_name) \in KeysOf(map)
    THEN Found(map[Lookup(map, BeforeParen(original_name))].value)
    ELSE PartialMatch(stripped, map)

\* the first position from i on that holds no whitespace
SkipWhitespace(s, i) ==
    Min({j \in i..Len(s) : Char(s, j) \notin Whitespace} \cup {Len(s) + 1})

\* the end of the match of \s*//?\s*TODO:.*?(?=\.|$) that starts at i, 0
\* when there is none
TodoEnd(s, i) ==
    LET slash == SkipWhitespace(s, i)
        after == IF MatchesAt(s, slash + 1, "/") THEN slash + 2 ELSE slash + 1
        todo == SkipWhitespace(s, after)
        first == todo + 4
        Q == {q \in first..Len(s) :
                /\ \/ MatchesAt(s, q + 1, ".")
                   \/ q = Len(s)
                   \/ q = Len(s) - 1 /\ Char(s, Len(s)) = "\n"
                /\ \A j \in (first + 1)..q : Char(s, j) # "\n"}
    IN  IF MatchesAt(s, slash, "/") /\ MatchesAt(s, todo, "TODO:") /\ Q # {}
        THEN Min(Q) ELSE 0

\* lines 539-560 for one element with the given text: the element is
\* removed, its string is set, or it is kept
TodoResult(text) ==
    IF StartsWith(Strip(text), "TODO:") THEN [kind |-> "remove"]
    ELSE IF Contains(text, "TODO:")
    THEN LET cleaned_text ==
                ReSubFrom(text, [i \in 1..Len(text) |-> TodoEnd(text, i)],
                          "", FALSE, "", 1)
         IN  IF Strip(cleaned_text) # "" /\ cleaned_text # text
             THEN [kind |-> "set", string |-> Strip(cleaned_text)]
             ELSE IF Strip(cleaned_text) = "" THEN [kind |-> "remove"]
             ELSE [kind |-> "keep"]
    ELSE [kind |-> "keep"]

\* the code elements of a paragraph that stays as it is, each one visited
\* after the paragraph
RECURSIVE CleanCodeFrom(_, _)
CleanCodeFrom(parts, k) ==
    IF k > Len(parts) THEN <<>>
    ELSE LET part == parts[k]
             r == TodoResult(part.string)
         IN  (IF part.tag # "code" \/ r.kind = "keep" THEN <<part>>
              ELSE IF r.kind = "set" THEN <<CodeTag(r.string)>>
              ELSE <<>>)
             \o CleanCodeFrom(parts, k + 1)

\* a paragraph and then its code elements in the loop over
\* soup.find_all(['p', 'pre', 'code'])
TodoParagraph(p) ==
    IF ~p.present THEN p
    ELSE LET r == TodoResult(GetText(p.parts)) IN
         IF r.kind = "remove" THEN NoPara
         ELSE IF r.kind = "set" THEN Para(<<TextNode(r.string)>>)
         ELSE Para(CleanCodeFrom(p.parts, 1))

\* p.string: the string of the only child
HasString(p, sub) ==
    p.present /\ Len(p.parts) = 1 /\ Contains(p.parts[1].string, sub)

\* the children appended at lines 351-360 and 368-378
NavigationBarParts ==
    << TextNode("Extension created to allow the developer to modify the 'bottom border' of the "),
       CodeTag("UINavigationBar"),
       TextNode(". This allows for the white highlight under the "),
       CodeTag("UINavigationBar"),
       TextNode(".") >>

\* the names whose pages get a declaration injected
declarations_to_inject ==
    {"AppDelegate", "User", "UIColor", "UIFont", "UINavigationBar"}

-----------------------------------------------------------------------------
(* The call replace_undocumented_in_html(html_file, inline_docs), a step   *)
(* for each part of its body.  ru_pc runs class_level, items, inject,      *)
(* special, todo, write, returned; raised when the call ends in an         *)
(* exception.                                                              *)

\* the documentation texts, one for each key
DocOf(key) ==
    CASE key = "doSomething" -> "x"
      [] key = "Bar" -> "y"
      [] OTHER -> "Uses " \o Backtick \o "Bar" \o Backtick \o " now"

Keys == {"doSomething", "Bar", "do"}

\* the comment maps: up to MaxKeys entries with distinct keys, in every order
CommentMaps ==
    {m \in UNION {[1..n -> {Entry(k, DocOf(k)) : k \in Keys}] : n \in 0..MaxKeys} :
        \A i, j \in 1..Len(m) : i # j => m[i].key # m[j].key}

Item(token, abstract, p) == [token |-> token, abstract |-> abstract, p |-> p]
Undocumented == Para(<<TextNode("Undocumented")>>)

ItemTemplates ==
    { Item(Token("doSomething(_:)"), TRUE, Undocumented),
      Item(Token("fooBarBaz"), TRUE, Undocumented),
      Item(Token("zzz"), TRUE, Para(<<TextNode("\n Undocumented ")>>)),
      Item(Token(" doSomething(_:) throws\n"), TRUE, Undocumented),
      Item(Token("doSomethingBar"), TRUE, Undocumented),
      Item(Token("Bar"), TRUE, Para(<<TextNode("Plays it. // TODO: check")>>)),
      Item(NoToken, TRUE, Undocumented),
      Item(Token("fooBarBaz"), FALSE, NoPara),
      Item(Token("doSome"), TRUE, Undocumented) }

ItemLists == UNION {[1..n -> ItemTemplates] : n \in 0..MaxItems}

TopMatter(file, h1, declaration, paras) ==
    [file |-> file, h1 |-> h1, declaration |-> declaration, paras |-> paras]

\* the file name and the top of the page: the heading, whether a declaration
\* is shown, and the paragraphs.  No page of AppDelegate, User, UIColor or
\* UIFont is among them.
TopMatters ==
    { TopMatter("docs/Classes/Foo.html", Token(" Bar "), TRUE, <<Undocumented>>),
      TopMatter("docs/Classes/Foo.html", NoToken, FALSE,
                <<Para(<<TextNode("TODO: write this")>>), Undocumented>>),
      TopMatter("docs/Extensions/UINavigationBar.html", Token("UINavigationBar"),
                FALSE, <<Undocumented>>),
      TopMatter("docs/Extensions/UINavigationBar.html", Token("UINavigationBar"),
                FALSE, <<Para(<<TextNode("See GeneralUINavigationBar.swift")>>)>>) }

Page(top, items) ==
    [h1 |-> top.h1, declaration |-> top.declaration, paras |-> top.paras,
     items |-> items]

RuIdle ==
    /\ html_file = ""
    /\ inline_docs = <<>>
    /\ disk = Page(TopMatter("", NoToken, FALSE, <<>>), <<>>)
    /\ soup = disk
    /\ replaced_count = 0
    /\ item_idx = 0
    /\ name = ""
    /\ doc = NotFound
    /\ ru_pc = "idle"

\* lines 150-153: the page is read and parsed, the counter starts at 0
RuStart ==
    /\ \E top \in TopMatters, items \in ItemLists :
          /\ html_file = top.file
          /\ disk = Page(top, items)
    /\ inline_docs \in CommentMaps
    /\ soup = disk
    /\ replaced_count = 0
    /\ item_idx = 0
    /\ name = ""
    /\ doc = NotFound
    /\ ru_pc = "class_level"

\* lines 156-172: the first Undocumented paragraph under the heading takes the
\* documentation of the class named by the heading
ClassLevel ==
    /\ ru_pc = "class_level"
    /\ LET class_name == Strip(soup.h1.text)
           P == {i \in 1..Len(soup.paras) : IsUndocumentedString(soup.paras[i])}
       IN  IF soup.h1.present /\ P # {} /\ class_name \in KeysOf(inline_docs)
           THEN /\ soup' = [soup EXCEPT !.paras[Min(P)] =
                     Para(convert_backticks_to_code(
                         inline_docs[Lookup(inline_docs, class_name)].value))]
                /\ replaced_count' = replaced_count + 1
           ELSE UNCHANGED <<soup, replaced_count>>
    /\ ru_pc' = "items"
    /\ UNCHANGED <<html_file, inline_docs, disk, item_idx, name, doc>>
    /\ UNCHANGED ru_others

\* the item the loop over task_items takes next
HasNextItem == ru_pc = "items" /\ item_idx < Len(soup.items)
NextItem == soup.items[item_idx + 1]

\* lines 177-180: an item without a token link is skipped
ItemNoToken ==
    /\ HasNextItem
    /\ ~NextItem.token.present
    /\ item_idx' = item_idx + 1
    /\ UNCHANGED <<html_file, inline_docs, disk, soup, replaced_count, name,
                   doc, ru_pc>>
    /\ UNCHANGED ru_others

\* lines 182-205: name and doc for the item's token
ItemMatch ==
    /\ HasNextItem
    /\ NextItem.token.present
    /\ name' = StripParams(Strip(NextItem.token.text))
    /\ doc' = MatchDoc(Strip(NextItem.token.text), inline_docs)
    /\ item_idx' = item_idx + 1

\* a variant that empties the paragraph before the test of doc
ItemNoDoc_clears ==
    /\ ItemMatch
    /\ ~doc'.found
    /\ soup' = [soup EXCEPT !.items[item_idx + 1].p =
                   IF @.present THEN Para(<<>>) ELSE @]
    /\ UNCHANGED <<html_file, inline_docs, disk, replaced_count, ru_pc>>
    /\ UNCHANGED ru_others

\* lines 207-208: without a doc the item is skipped
ItemNoDoc ==
    /\ ItemMatch
    /\ ~doc'.found
    /\ UNCHANGED <<html_file, inline_docs, disk, soup, replaced_count, ru_pc>>
    /\ UNCHANGED ru_others

\* lines 211-213: an item without an abstract is skipped
ItemNoAbstract ==
    /\ ItemMatch
    /\ doc'.found
    /\ ~NextItem.abstract
    /\ UNCHANGED <<html_file, inline_docs, disk, soup, replaced_count, ru_pc>>
    /\ UNCHANGED ru_others

\* a variant that rewrites the paragraph whatever it shows
ItemKeep_overwrites ==
    /\ ItemMatch
    /\ doc'.found
    /\ NextItem.abstract
    /\ ~IsUndocumentedText(NextItem.p)
    /\ soup' = [soup EXCEPT !.items[item_idx + 1].p =
                   Para(convert_backticks_to_code(doc'.value))]
    /\ replaced_count' = replaced_count + 1
    /\ UNCHANGED <<html_file, inline_docs, disk, ru_pc>>
    /\ UNCHANGED ru_others

\* lines 216-217: the abstract has no paragraph, or one that is not the
\* placeholder
ItemKeep ==
    /\ ItemMatch
    /\ doc'.found
    /\ NextItem.abstract
    /\ ~IsUndocumentedText(NextItem.p)
    /\ UNCHANGED <<html_file, inline_docs, disk, soup, replaced_count, ru_pc>>
    /\ UNCHANGED ru_others

\* lines 216-224: the placeholder paragraph takes the documentation
ItemReplace ==
    /\ ItemMatch
    /\ doc'.found
    /\ NextItem.abstract
    /\ IsUndocumentedText(NextItem.p)
    /\ soup' = [soup EXCEPT !.items[item_idx + 1].p =
                   Para(convert_backticks_to_code(doc'.value))]
    /\ replaced_count' = replaced_count + 1
    /\ UNCHANGED <<html_file, inline_docs, disk, ru_pc>>
    /\ UNCHANGED ru_others

\* line 175: the loop over task_items ends
ItemsDone ==
    /\ ru_pc = "items"
    /\ item_idx = Len(soup.items)
    /\ ru_pc' = "inject"
    /\ UNCHANGED <<html_file, inline_docs, disk, soup, replaced_count,
                   item_idx, name, doc>>
    /\ UNCHANGED ru_others

\* lines 227-259: a page of one of the five names gets its declaration put
\* before the first paragraph under its heading, unless it shows one
InjectDeclarations ==
    /\ ru_pc = "inject"
    /\ soup' = [soup EXCEPT !.declaration =
                   \/ @
                   \/ \E class_name \in declarations_to_inject :
                         /\ Contains(html_file, class_name)
                         /\ soup.h1.present
                         /\ soup.h1.text = class_name
                         /\ Len(soup.paras) > 0]
    /\ ru_pc' = "special"
    /\ UNCHANGED <<html_file, inline_docs, disk, replaced_count, item_idx,
                   name, doc>>
    /\ UNCHANGED ru_others

\* the first paragraph of the top section whose string is Undocumented
UndocumentedTop ==
    {i \in 1..Len(soup.paras) : IsUndocumentedString(soup.paras[i])}

\* lines 262-536 on a page that is not the UINavigationBar one, and on that
\* one when no paragraph under its heading is left Undocumented: the
\* paragraphs naming GeneralUINavigationBar are rewritten
SpecialHandling ==
    /\ ru_pc = "special"
    /\ ~(Contains(html_file, "UINavigationBar") /\ UndocumentedTop # {})
    /\ soup' = [soup EXCEPT !.paras =
                   [i \in 1..Len(soup.paras) |->
                       IF /\ Contains(html_file, "UINavigationBar")
                          /\ HasString(soup.paras[i], "GeneralUINavigationBar")
                       THEN Para(NavigationBarParts)
                       ELSE soup.paras[i]]]
    /\ ru_pc' = "todo"
    /\ UNCHANGED <<html_file, inline_docs, disk, replaced_count, item_idx,
                   name, doc>>
    /\ UNCHANGED ru_others

\* lines 343-362: on the UINavigationBar page the Undocumented paragraph is
\* rewritten, and line 362 adds to replaced, a local that was never
\* assigned: the call ends in UnboundLocalError and the page is not written
SpecialHandlingRaises ==
    /\ ru_pc = "special"
    /\ Contains(html_file, "UINavigationBar")
    /\ UndocumentedTop # {}
    /\ soup' = [soup EXCEPT !.paras[Min(UndocumentedTop)] =
                   Para(NavigationBarParts)]
    /\ ru_pc' = "raised"
    /\ UNCHANGED <<html_file, inline_docs, disk, replaced_count, item_idx,
                   name, doc>>
    /\ UNCHANGED ru_others

\* lines 538-560: TODO notes are taken out of the paragraphs and their code
\* elements
RemoveTodos ==
    /\ ru_pc = "todo"
    /\ soup' = [soup EXCEPT
                   !.paras = [i \in 1..Len(soup.paras) |->
                                 TodoParagraph(soup.paras[i])],
                   !.items = [i \in 1..Len(soup.items) |->
                                 [soup.items[i] EXCEPT !.p = TodoParagraph(@)]]]
    /\ ru_pc' = "write"
    /\ UNCHANGED <<html_file, inline_docs, disk, replaced_count, item_idx,
                   name, doc>>
    /\ UNCHANGED ru_others

\* lines 563-566: the page is written back and the counter returned
WritePage ==
    /\ ru_pc = "write"
    /\ disk' = soup
    /\ ru_pc' = "returned"
    /\ UNCHANGED <<html_file, inline_docs, soup, replaced_count, item_idx,
                   name, doc>>
    /\ UNCHANGED ru_others

-----------------------------------------------------------------------------
(* replace-undocumented.py, parse_swift_inline_docs and extract_doc_comment.*)
(* A line is held without its line end; the lines of a file are numbered    *)
(* from 1, so that Python's index i is walk_idx - 1 and its loop test       *)
(* i >= 0 is walk_idx >= 1.                                                 *)

\* s.endswith(suffix)
EndsWith(s, suffix) == MatchesAt(s, Len(s) - Len(suffix) + 1, suffix)

\* s.lstrip('*')
LStripStars(s) ==
    LET K == {j \in 1..Len(s) : Char(s, j) # "*"} IN
    IF K = {} THEN "" ELSE SubSeq(s, Min(K), Len(s))

\* ' '.join(seq)
RECURSIVE JoinFrom(_, _)
JoinFrom(seq, k) ==
    IF k > Len(seq) THEN ""
    ELSE IF k = Len(seq) THEN seq[k]
    ELSE seq[k] \o " " \o JoinFrom(seq, k + 1)

JoinSpaces(seq) == JoinFrom(seq, 1)

\* seq.insert(0, x)
InsertFirst(seq, x) == <<x>> \o seq

\* the pieces of the patterns of lines 70-101: a literal, \s+, \s* and the
\* group (\w+)
Lit(w) == [piece |-> "literal", text |-> w]
Spaces == [piece |-> "spaces"]
OptSpaces == [piece |-> "optional spaces"]
Word == [piece |-> "word"]

NoMatch == [matched |-> FALSE]

\* re.match of the pieces pat[k..] against s from position p on; word is the
\* latest (\w+) group.  Every piece of these patterns is followed by one that
\* cannot start with a character the piece accepts, so the greedy match is the
\* only one.
RECURSIVE PiecesMatch(_, _, _, _, _)
PiecesMatch(s, p, pat, k, word) ==
    IF k > Len(pat) THEN [matched |-> TRUE, word |-> word]
    ELSE LET piece == pat[k] IN
         IF piece.piece = "literal"
         THEN IF MatchesAt(s, p, piece.text)
              THEN PiecesMatch(s, p + Len(piece.text), pat, k + 1, word)
              ELSE NoMatch
         ELSE IF piece.piece = "optional spaces"
         THEN PiecesMatch(s, SkipWhitespace(s, p), pat, k + 1, word)
         ELSE IF piece.piece = "spaces"
         THEN IF p <= Len(s) /\ Char(s, p) \in Whitespace
              THEN PiecesMatch(s, SkipWhitespace(s, p), pat, k + 1, word)
              ELSE NoMatch
         ELSE IF p <= Len(s) /\ IsWordChar(Char(s, p))
              THEN LET e == Min({j \in p..Len(s) : ~IsWordChar(Char(s, j))}
                                \cup {Len(s) + 1})
                   IN  PiecesMatch(s, e, pat, k + 1, SubSeq(s, p, e - 1))
              ELSE NoMatch

\* re.match(r'^\s*(q1\s+|q2\s+|...)?(h1|h2|...)rest', line): the match with
\* one of the qualifiers, or else the match without
ReMatch(line, qualifiers, heads, rest) ==
    LET with == {PiecesMatch(line, 1,
                     <<OptSpaces, Lit(q), Spaces, Lit(k)>> \o rest, 1, "") :
                     q \in qualifiers, k \in heads}
        without == {PiecesMatch(line, 1, <<OptSpaces, Lit(k)>> \o rest, 1, "") :
                     k \in heads}
    IN  IF \E m \in with : m.matched
        THEN CHOOSE m \in with : m.matched
        ELSE IF \E m \in without : m.matched
        THEN CHOOSE m \in without : m.matched
        ELSE NoMatch

\* line 70: ^\s*(public\s+)?(class|struct|enum|protocol|extension)\s+(\w+)
TypeMatch(line) ==
    ReMatch(line, {"public"},
            {"class", "struct", "enum", "protocol", "extension"},
            <<Spaces, Word>>)

\* line 78: ^\s*(private\s+)?init\s*\(
InitMatch(line) ==
    ReMatch(line, {"private"}, {"init"}, <<OptSpaces, Lit("(")>>)

\* line 84: ^\s*@IBOutlet\s+weak\s+var\s+(\w+)
OutletMatch(line) ==
    ReMatch(line, {}, {"@IBOutlet"},
            <<Spaces, Lit("weak"), Spaces, Lit("var"), Spaces, Word>>)

\* line 92: ^\s*(public\s+|private\s+|internal\s+)?func\s+(\w+)
FuncMatch(line) ==
    ReMatch(line, {"public", "private", "internal"}, {"func"},
            <<Spaces, Word>>)

\* line 100: ^\s*(static\s+)?(var|let)\s+(\w+)
VarMatch(line) ==
    ReMatch(line, {"static"}, {"var", "let"}, <<Spaces, Word>>)

SetItem_moves_to_end(map, k, v) ==
    Append(SelectSeq(map, LAMBDA e : e.key # k), Entry(k, v))

\* docs[key] = value on a dict held as its entries in insertion order
SetItem(map, k, v) ==
    IF k \in KeysOf(map)
    THEN [map EXCEPT ![Lookup(map, k)] = Entry(k, v)]
    ELSE Append(map, Entry(k, v))

\* The Swift files of the model: what stands above, then a comment, then
\* what separates it from the declaration, then a declaration line.
ContextLines == {"/// Starts.", "init() {", "", "/**"}

RECURSIVE SeqsUpTo(_, _)
SeqsUpTo(S, n) ==
    IF n = 0 THEN {<<>>}
    ELSE LET shorter == SeqsUpTo(S, n - 1) IN
         shorter \cup {Append(q, x) : q \in shorter, x \in S}

Comments ==
    { <<>>,
      <<"/// Stops.">>,
      <<"// plain">>,
      <<"    /**", "     * Plays a note.", "    at full velocity.", "     *",
        "     */">>,
      <<"/**", " */">>,
      <<"/** Stops. */">>,
      <<"/*", " * Plays a note.", " */">> }

Gaps == { <<>>, <<"">>, <<"@objc">>, <<"@IBOutlet weak var knob: UIView!">> }

Declarations ==
    { "func play() {", "    public func play(note: Int) {", "init() {",
      "private init() {", "public init() {", "class Engine {",
      "@IBOutlet weak var knob: UIView!", "static let shared = Engine()",
      "private var gain = 1", "class func reset() {" }

SwiftFiles ==
    {above \o comment \o gap \o <<decl>> :
        above \in SeqsUpTo(ContextLines, MaxAbove), comment \in Comments,
        gap \in Gaps, decl \in Declarations}

\* the lines of the model's files, and for each of them the result of the
\* five patterns of lines 70-100 and of strip() (line 20), computed once
ModelLines == UNION {{f[j] : j \in 1..Len(f)} : f \in SwiftFiles}

LineMatches ==
    [l \in ModelLines |->
        [type |-> TypeMatch(l), init |-> InitMatch(l),
         outlet |-> OutletMatch(l), func |-> FuncMatch(l),
         var |-> VarMatch(l)]]

Stripped == [l \in ModelLines |-> Strip(l)]

RcIdle ==
    /\ lines = <<>>
    /\ start_idx = 0
    /\ rc_key = ""
    /\ walk_idx = 0
    /\ in_block_comment = FALSE
    /\ doc_lines = <<>>
    /\ swift_docs = <<>>
    /\ rc_pc = "idle"

\* lines 63-68: docs = {}, the file is read, the loop is at its first line
RcStart ==
    /\ lines \in SwiftFiles
    /\ start_idx = 1
    /\ rc_key = ""
    /\ walk_idx = 0
    /\ in_block_comment = FALSE
    /\ doc_lines = <<>>
    /\ swift_docs = <<>>
    /\ rc_pc = "scan"

\* lines 14-16: extract_doc_comment(lines, i) is entered for the key of the
\* line the scan is at
EnterWalk(key_name) ==
    /\ rc_key' = key_name
    /\ doc_lines' = <<>>
    /\ walk_idx' = start_idx - 1
    /\ in_block_comment' = FALSE
    /\ rc_pc' = "walk"
    /\ UNCHANGED <<lines, start_idx, swift_docs>>
    /\ UNCHANGED rc_others

AtLine == rc_pc = "scan" /\ start_idx <= Len(lines)

\* lines 70-73: a type, protocol or extension declaration
ScanType ==
    /\ AtLine
    /\ LineMatches[lines[start_idx]].type.matched
    /\ EnterWalk(LineMatches[lines[start_idx]].type.word)

\* lines 78-79: an initializer
ScanInit ==
    /\ AtLine
    /\ ~LineMatches[lines[start_idx]].type.matched
    /\ LineMatches[lines[start_idx]].init.matched
    /\ EnterWalk("init")

\* lines 84-87: an outlet property
ScanOutlet ==
    /\ AtLine
    /\ ~LineMatches[lines[start_idx]].type.matched
    /\ ~LineMatches[lines[start_idx]].init.matched
    /\ LineMatches[lines[start_idx]].outlet.matched
    /\ EnterWalk(LineMatches[lines[start_idx]].outlet.word)

\* lines 92-95: a function
ScanFunc ==
    /\ AtLine
    /\ ~LineMatches[lines[start_idx]].type.matched
    /\ ~LineMatches[lines[start_idx]].init.matched
    /\ ~LineMatches[lines[start_idx]].outlet.matched
    /\ LineMatches[lines[start_idx]].func.matched
    /\ EnterWalk(LineMatches[lines[start_idx]].func.word)

\* lines 100-103: a variable or constant
ScanVar ==
    /\ AtLine
    /\ ~LineMatches[lines[start_idx]].type.matched
    /\ ~LineMatches[lines[start_idx]].init.matched
    /\ ~LineMatches[lines[start_idx]].outlet.matched
    /\ ~LineMatches[lines[start_idx]].func.matched
    /\ LineMatches[lines[start_idx]].var.matched
    /\ EnterWalk(LineMatches[lines[start_idx]].var.word)

\* line 68: no pattern matches, the loop goes to the next line
ScanOther ==
    /\ AtLine
    /\ ~LineMatches[lines[start_idx]].type.matched
    /\ ~LineMatches[lines[start_idx]].init.matched
    /\ ~LineMatches[lines[start_idx]].outlet.matched
    /\ ~LineMatches[lines[start_idx]].func.matched
    /\ ~LineMatches[lines[start_idx]].var.matched
    /\ start_idx' = start_idx + 1
    /\ UNCHANGED <<lines, rc_key, walk_idx, in_block_comment, doc_lines,
                   swift_docs, rc_pc>>
    /\ UNCHANGED rc_others

\* line 107: the loop is over, docs is returned
ScanDone ==
    /\ rc_pc = "scan"
    /\ start_idx > Len(lines)
    /\ rc_pc' = "done"
    /\ UNCHANGED <<lines, start_idx, rc_key, walk_idx, in_block_comment,
                   doc_lines, swift_docs>>
    /\ UNCHANGED rc_others

\* line 20: line = lines[i].strip()
WalkLine == Stripped[lines[walk_idx]]

InWalk == rc_pc = "walk" /\ walk_idx >= 1

\* what a step of the walk leaves alone
WalkFrame ==
    /\ UNCHANGED <<lines, start_idx, rc_key, swift_docs>>
    /\ UNCHANGED rc_others

\* line 19: the loop test fails above the first line
WalkTop ==
    /\ rc_pc = "walk"
    /\ walk_idx < 1
    /\ rc_pc' = "return"
    /\ UNCHANGED <<walk_idx, in_block_comment, doc_lines>>
    /\ WalkFrame

\* line 26: content = line[:-2].strip()
ClosingContent(line) == Strip(SubSeq(line, 1, Len(line) - 2))

\* lines 23-30: the line ends a block comment
WalkBlockClose ==
    /\ InWalk
    /\ EndsWith(WalkLine, "*/")
    /\ in_block_comment' = TRUE
    /\ doc_lines' =
          IF ClosingContent(WalkLine) # "" /\ ClosingContent(WalkLine) # "/**"
          THEN InsertFirst(doc_lines, ClosingContent(WalkLine))
          ELSE doc_lines
    /\ walk_idx' = walk_idx - 1
    /\ UNCHANGED rc_pc
    /\ WalkFrame

\* lines 34 and 47: line[3:].strip()
AfterMarker(line) == Strip(SubSeq(line, 4, Len(line)))

\* lines 31-37: inside a block comment, the line that starts with /**
WalkBlockOpen ==
    /\ InWalk
    /\ ~EndsWith(WalkLine, "*/")
    /\ in_block_comment
    /\ StartsWith(WalkLine, "/**")
    /\ doc_lines' =
          IF AfterMarker(WalkLine) # ""
          THEN InsertFirst(doc_lines, AfterMarker(WalkLine))
          ELSE doc_lines
    /\ rc_pc' = "return"
    /\ UNCHANGED <<walk_idx, in_block_comment>>
    /\ WalkFrame

InteriorContent_keeps_asterisks(line) == Strip(line)

\* line 40: content = line.lstrip('*').strip()
InteriorContent(line) == Strip(LStripStars(line))

\* lines 38-44: inside a block comment, any other line
WalkBlockInterior ==
    /\ InWalk
    /\ ~EndsWith(WalkLine, "*/")
    /\ in_block_comment
    /\ ~StartsWith(WalkLine, "/**")
    /\ doc_lines' =
          IF InteriorContent(WalkLine) # ""
          THEN InsertFirst(doc_lines, InteriorContent(WalkLine))
          ELSE doc_lines
    /\ walk_idx' = walk_idx - 1
    /\ UNCHANGED <<in_block_comment, rc_pc>>
    /\ WalkFrame

OutsideBlock == InWalk /\ ~EndsWith(WalkLine, "*/") /\ ~in_block_comment

\* lines 46-48: a /// line
WalkDocLine ==
    /\ OutsideBlock
    /\ StartsWith(WalkLine, "///")
    /\ doc_lines' = InsertFirst(doc_lines, AfterMarker(WalkLine))
    /\ walk_idx' = walk_idx - 1
    /\ UNCHANGED <<in_block_comment, rc_pc>>
    /\ WalkFrame

\* lines 49-50: an empty line
WalkBlank ==
    /\ OutsideBlock
    /\ ~StartsWith(WalkLine, "///")
    /\ WalkLine = ""
    /\ walk_idx' = walk_idx - 1
    /\ UNCHANGED <<in_block_comment, doc_lines, rc_pc>>
    /\ WalkFrame

\* lines 52-53: an attribute line
WalkAttribute ==
    /\ OutsideBlock
    /\ ~StartsWith(WalkLine, "///")
    /\ WalkLine # ""
    /\ StartsWith(WalkLine, "@")
    /\ walk_idx' = walk_idx - 1
    /\ UNCHANGED <<in_block_comment, doc_lines, rc_pc>>
    /\ WalkFrame

WalkStop_goes_on ==
    /\ OutsideBlock
    /\ ~StartsWith(WalkLine, "///")
    /\ WalkLine # ""
    /\ ~StartsWith(WalkLine, "@")
    /\ walk_idx' = walk_idx - 1
    /\ UNCHANGED <<in_block_comment, doc_lines, rc_pc>>
    /\ WalkFrame

\* lines 54-55: anything else ends the loop
WalkStop ==
    /\ OutsideBlock
    /\ ~StartsWith(WalkLine, "///")
    /\ WalkLine # ""
    /\ ~StartsWith(WalkLine, "@")
    /\ rc_pc' = "return"
    /\ UNCHANGED <<walk_idx, in_block_comment, doc_lines>>
    /\ WalkFrame

\* lines 57-58 and 74-75: a non-empty doc is stored under the key
StoreDoc ==
    /\ rc_pc = "return"
    /\ doc_lines # <<>>
    /\ JoinSpaces(doc_lines) # ""
    /\ swift_docs' = SetItem(swift_docs, rc_key, JoinSpaces(doc_lines))
    /\ start_idx' = start_idx + 1
    /\ rc_pc' = "scan"
    /\ UNCHANGED <<lines, rc_key, walk_idx, in_block_comment, doc_lines>>
    /\ UNCHANGED rc_others

\* lines 57-59 and 74: None or an empty doc, nothing is stored
NoDoc ==
    /\ rc_pc = "return"
    /\ doc_lines = <<>> \/ JoinSpaces(doc_lines) = ""
    /\ start_idx' = start_idx + 1
    /\ rc_pc' = "scan"
    /\ UNCHANGED <<lines, rc_key, walk_idx, in_block_comment, doc_lines,
                   swift_docs>>
    /\ UNCHANGED rc_others

-----------------------------------------------------------------------------
(* replace-undocumented.py, main(): the loop over the Swift files, from    *)
(* line 833 on.  What parse_swift_inline_docs returns for a file is part of *)
(* the file's record here.                                                 *)

SwiftFile(html_exists, found_docs, top, items) ==
    [html_exists |-> html_exists, inline_docs |-> found_docs, top |-> top,
     items |-> items]

FooTop == TopMatter("docs/Classes/Foo.html", Token(" Bar "), TRUE,
                    <<Undocumented>>)

NavigationBarTop ==
    TopMatter("docs/Extensions/UINavigationBar.html", Token("UINavigationBar"),
              FALSE, <<Undocumented>>)

FooItems ==
    << Item(Token("doSomething(_:)"), TRUE, Undocumented),
       Item(Token("zzz"), TRUE, Undocumented),
       Item(NoToken, TRUE, Undocumented),
       Item(Token("fooBarBaz"), FALSE, NoPara),
       Item(Token("Bar"), TRUE, Para(<<TextNode("Plays it. // TODO: check")>>)) >>

FooDocs == <<Entry("doSomething", DocOf("doSomething")), Entry("Bar", DocOf("Bar"))>>

\* a file with a page and comments, the file of the UINavigationBar
\* extension whose comments do not document the extension itself, the same
\* with a comment on the extension, a file without a page, and a file
\* without comments
SwiftFileSet ==
    { SwiftFile(TRUE, FooDocs, FooTop, FooItems),
      SwiftFile(TRUE, <<Entry("Bar", DocOf("Bar"))>>, NavigationBarTop, <<>>),
      SwiftFile(TRUE, <<Entry("UINavigationBar", DocOf("Bar"))>>,
                NavigationBarTop, <<>>),
      SwiftFile(FALSE, FooDocs, FooTop, <<>>),
      SwiftFile(TRUE, <<>>, FooTop, FooItems) }

TlIdle ==
    /\ swift_files = <<>>
    /\ file_idx = 0
    /\ written = <<>>
    /\ tool_pc = "idle"

\* line 833: the loop starts
TlStart ==
    /\ swift_files \in UNION {[1..n -> SwiftFileSet] : n \in 0..MaxFiles}
    /\ file_idx = 0
    /\ written = <<>>
    /\ tool_pc = "loop"

HasNextFile == tool_pc = "loop" /\ file_idx < Len(swift_files)
NextFile == swift_files[file_idx + 1]

\* lines 844-848: no page for the file, the loop goes on
ToolSkipNoHtml ==
    /\ HasNextFile
    /\ ~NextFile.html_exists
    /\ file_idx' = file_idx + 1
    /\ UNCHANGED <<swift_files, written, tool_pc, ru_vars, tl_others>>

\* lines 853-857: no comment in the file, the loop goes on
ToolSkipNoDocs ==
    /\ HasNextFile
    /\ NextFile.html_exists
    /\ NextFile.inline_docs = <<>>
    /\ file_idx' = file_idx + 1
    /\ UNCHANGED <<swift_files, written, tool_pc, ru_vars, tl_others>>

\* lines 862-865 and 150-153: replace_undocumented_in_html is called with the
\* page and the comments of the file
ToolCall ==
    /\ HasNextFile
    /\ NextFile.html_exists
    /\ NextFile.inline_docs # <<>>
    /\ html_file' = NextFile.top.file
    /\ inline_docs' = NextFile.inline_docs
    /\ disk' = Page(NextFile.top, NextFile.items)
    /\ soup' = Page(NextFile.top, NextFile.items)
    /\ replaced_count' = 0
    /\ item_idx' = 0
    /\ name' = ""
    /\ doc' = NotFound
    /\ ru_pc' = "class_level"
    /\ tool_pc' = "call"
    /\ UNCHANGED <<swift_files, file_idx, written, tl_others>>

\* lines 865-866: the call returns, the page is written, the loop goes on
ToolReturn ==
    /\ tool_pc = "call"
    /\ ru_pc = "returned"
    /\ written' = Append(written, file_idx + 1)
    /\ file_idx' = file_idx + 1
    /\ tool_pc' = "loop"
    /\ ru_pc' = "idle"
    /\ UNCHANGED <<html_file, inline_docs, disk, soup, replaced_count,
                   item_idx, name, doc>>
    /\ UNCHANGED <<swift_files, tl_others>>

\* line 865: the call raises; nothing in main() catches, the run ends with
\* the traceback
ToolRaises ==
    /\ tool_pc = "call"
    /\ ru_pc = "raised"
    /\ tool_pc' = "crashed"
    /\ UNCHANGED <<swift_files, file_idx, written, ru_vars, tl_others>>

\* lines 833 and 868: the loop is over, the summary pages follow
ToolLoopDone ==
    /\ tool_pc = "loop"
    /\ file_idx = Len(swift_files)
    /\ tool_pc' = "summary"
    /\ UNCHANGED <<swift_files, file_idx, written, ru_vars, tl_others>>

-----------------------------------------------------------------------------
(* replace-undocumented.py, convert_backticks_to_code, lines 109-146, one  *)
(* iteration of the while loop at a time.  cv_i counts from 0 as i does.   *)

RECURSIVE TextsUpTo(_)
TextsUpTo(n) ==
    IF n = 0 THEN {""}
    ELSE LET shorter == TextsUpTo(n - 1) IN
         shorter \cup {t \o c : t \in shorter, c \in {"a", "b", Backtick}}

Texts == TextsUpTo(MaxText)

CvIdle ==
    /\ cv_text = ""
    /\ cv_i = 0
    /\ cv_current_text = ""
    /\ cv_in_code = FALSE
    /\ cv_parts = <<>>
    /\ cv_pc = "idle"

\* lines 112-115
CvStart ==
    /\ cv_text \in Texts
    /\ cv_i = 0
    /\ cv_current_text = ""
    /\ cv_in_code = FALSE
    /\ cv_parts = <<>>
    /\ cv_pc = "loop"

InLoop == cv_pc = "loop" /\ cv_i < Len(cv_text)

\* text[i]
CvChar == Char(cv_text, cv_i + 1)

\* lines 119-121 and 143-144: the pending plain text becomes a part
Flushed ==
    IF cv_current_text # "" THEN Append(cv_parts, TextNode(cv_current_text))
    ELSE cv_parts

\* text.find('`', i), -1 when there is none
CvEnd ==
    LET at == Find(SubSeq(cv_text, cv_i + 1, Len(cv_text)), Backtick) IN
    IF at = 0 THEN -1 ELSE cv_i + at - 1

\* lines 118-125 and 141: a backtick
CvBacktick ==
    /\ InLoop
    /\ CvChar = Backtick
    /\ cv_parts' = Flushed
    /\ cv_current_text' = ""
    /\ cv_in_code' = ~cv_in_code
    /\ cv_i' = cv_i + 1
    /\ UNCHANGED <<cv_text, cv_pc, cv_others>>

\* lines 127-136 and 141: inside code, with a closing backtick ahead
CvCodeClosed ==
    /\ InLoop
    /\ CvChar # Backtick
    /\ cv_in_code
    /\ CvEnd # -1
    /\ cv_parts' = Append(cv_parts, CodeTag(SubSeq(cv_text, cv_i + 1, CvEnd)))
    /\ cv_i' = CvEnd + 1
    /\ cv_in_code' = FALSE
    /\ UNCHANGED <<cv_text, cv_current_text, cv_pc, cv_others>>

\* a variant that drops the character
CvCodeOpen_drops_text ==
    /\ InLoop
    /\ CvChar # Backtick
    /\ cv_in_code
    /\ CvEnd = -1
    /\ cv_i' = cv_i + 1
    /\ UNCHANGED <<cv_text, cv_current_text, cv_in_code, cv_parts, cv_pc,
                   cv_others>>

\* lines 127-130, 137-138 and 141: inside code, with no backtick ahead
CvCodeOpen ==
    /\ InLoop
    /\ CvChar # Backtick
    /\ cv_in_code
    /\ CvEnd = -1
    /\ cv_current_text' = cv_current_text \o CvChar
    /\ cv_i' = cv_i + 1
    /\ UNCHANGED <<cv_text, cv_in_code, cv_parts, cv_pc, cv_others>>

\* lines 139-141: plain text
CvPlain ==
    /\ InLoop
    /\ CvChar # Backtick
    /\ ~cv_in_code
    /\ cv_current_text' = cv_current_text \o CvChar
    /\ cv_i' = cv_i + 1
    /\ UNCHANGED <<cv_text, cv_in_code, cv_parts, cv_pc, cv_others>>

\* lines 117 and 143-146: the loop is over
CvReturn ==
    /\ cv_pc = "loop"
    /\ cv_i >= Len(cv_text)
    /\ cv_parts' = Flushed
    /\ cv_pc' = "done"
    /\ UNCHANGED <<cv_text, cv_i, cv_current_text, cv_in_code, cv_others>>

-----------------------------------------------------------------------------
(* clean-docs.py: the table REPLACEMENTS, lines 13-57, and clean_file,     *)
(* lines 59-79.                                                            *)

\* the end of the match of the pieces pat[k..] against s from position p
\* on, 0 when there is none.  The pieces are literals and \s*; every \s* is
\* followed by a literal that starts with no whitespace
RECURSIVE PatternEnd(_, _, _, _)
PatternEnd(s, p, pat, k) ==
    IF k > Len(pat) THEN p - 1
    ELSE IF pat[k].piece = "literal"
    THEN IF MatchesAt(s, p, pat[k].text)
         THEN PatternEnd(s, p + Len(pat[k].text), pat, k + 1)
         ELSE 0
    ELSE PatternEnd(s, SkipWhitespace(s, p), pat, k + 1)

Rule(pat, replacement) == [pattern |-> pat, replacement |-> replacement]

LinkIndent == "\n\n                        "

UndocumentedBefore(page) ==
    <<Lit("<p>Undocumented</p>"), OptSpaces,
      Lit("<a href=\"Classes/" \o page \o ".html\"")>>

TodoBlock(todo) ==
    <<Lit("<pre class=\"highlight plaintext\"><code>" \o todo), OptSpaces,
      Lit("</code></pre>")>>

AudioClipText ==
    "This is a custom model that allows to store both a URL and a title for an audio clip."
AudioClipTodo ==
    "// TODO: create a mechanism to display and edit the name of the file."
AudioClipFixed ==
    "Data model that encapsulates recorded audio file information including file URL and display title."
FirebaseTodo ==
    "TODO: configure firebase backend system. Create an api-manager to control https requests. input validation for email/phone number."
SingletonTodo ==
    "TODO: Use singleton instead of local variables and methods. This is just to allow for code abstraction and reduce viewcontroller complexity."
APIManagerFixed ==
    "Singleton manager for Firebase authentication, social login integration, and user data persistence."
APIManagerLink == "<a href=\"Classes/APIManager.html\""

\* the dict in the order it is written, which is the order items() gives
REPLACEMENTS == <<
    Rule(UndocumentedBefore("User"),
         "<p>Represents an authenticated user account with credentials and equalizer settings data.</p>"
         \o LinkIndent \o "<a href=\"Classes/User.html\""),
    Rule(UndocumentedBefore("AppDelegate"),
         "<p>Application lifecycle management, Firebase configuration, and root view controller switching.</p>"
         \o LinkIndent \o "<a href=\"Classes/AppDelegate.html\""),
    Rule(TodoBlock("TODO: cleanup code."), ""),
    Rule(TodoBlock("TODO: add in appdelegate to check if the user is signed in."),
         ""),
    Rule(TodoBlock(FirebaseTodo), ""),
    Rule(<<Lit(AudioClipText), OptSpaces, Lit(AudioClipTodo)>>, AudioClipFixed),
    Rule(<<Lit("<p>" \o AudioClipText), OptSpaces, Lit(AudioClipTodo \o "</p>"),
           OptSpaces, Lit(APIManagerLink)>>,
         "<p>" \o APIManagerFixed \o "</p>" \o LinkIndent \o APIManagerLink),
    Rule(<<Lit("<p>" \o FirebaseTodo \o "</p>")>>,
         "<p>Handles account creation with email/password and social authentication through Firebase, Google Sign-In, and Facebook Login.</p>"),
    Rule(<<Lit("<p>" \o SingletonTodo \o "</p>")>>,
         "<p>Provides audio recording functionality for the equalizer, allowing users to pre-record audio clips for processing.</p>"),
    Rule(<<Lit("&copy; 2017")>>, "&copy; 2025"),
    Rule(<<Lit("github.com/lesseradmin")>>, "github.com/kvnloo") >>

\* line 69: re.sub(pattern, replacement, content)
ApplyRule(rule, page) ==
    ReSubFrom(page,
              [p \in 1..Len(page) |-> PatternEnd(page, p, rule.pattern, 1)],
              rule.replacement, FALSE, "", 1)

\* pieces of the generated pages: the entry of APIManager and the entry of
\* RecordedAudioObject in a summary page, both with the text and the TODO of
\* RecordedAudioObject, an undocumented entry, a TODO block, the footer, and
\* a paragraph that no rule is about
Fragments ==
    { "<p>" \o AudioClipText \o " " \o AudioClipTodo \o "</p>\n"
          \o APIManagerLink \o ">APIManager</a>\n",
      "<p>" \o AudioClipText \o "\n" \o AudioClipTodo \o "</p>\n"
          \o "<a href=\"Classes/RecordedAudioObject.html\">RecordedAudioObject</a>\n",
      "<p>Undocumented</p>\n<a href=\"Classes/User.html\">User</a>\n",
      "<pre class=\"highlight plaintext\"><code>TODO: cleanup code.\n</code></pre>\n",
      "<p>&copy; 2017 <a href=\"https://github.com/lesseradmin\">lesseradmin</a></p>\n",
      "<p>Plays the clip.</p>\n" }

RECURSIVE PagesUpTo(_)
PagesUpTo(n) ==
    IF n = 0 THEN {""}
    ELSE LET shorter == PagesUpTo(n - 1) IN
         shorter \cup {page \o f : page \in shorter, f \in Fragments}

HtmlPages == PagesUpTo(MaxFragments)

ClIdle ==
    /\ cl_file = ""
    /\ content = ""
    /\ original_content = ""
    /\ rule_idx = 0
    /\ cl_changed = FALSE
    /\ cl_pc = "idle"

\* line 59: the call, with the file as it is on disk
ClStart ==
    /\ cl_file \in HtmlPages
    /\ content = ""
    /\ original_content = ""
    /\ rule_idx = 0
    /\ cl_changed = FALSE
    /\ cl_pc = "open"

\* lines 62-65
ReadFile ==
    /\ cl_pc = "open"
    /\ content' = cl_file
    /\ original_content' = cl_file
    /\ cl_pc' = "rules"
    /\ UNCHANGED <<cl_file, rule_idx, cl_changed, cl_others>>

\* lines 68-69: the next rule of the table, on what the rules before it left
NextRule ==
    /\ cl_pc = "rules"
    /\ rule_idx < Len(REPLACEMENTS)
    /\ content' = ApplyRule(REPLACEMENTS[rule_idx + 1], content)
    /\ rule_idx' = rule_idx + 1
    /\ UNCHANGED <<cl_file, original_content, cl_changed, cl_pc, cl_others>>

\* lines 72-75: the content changed, the file is written
WriteCleaned ==
    /\ cl_pc = "rules"
    /\ rule_idx = Len(REPLACEMENTS)
    /\ content # original_content
    /\ cl_file' = content
    /\ cl_changed' = TRUE
    /\ cl_pc' = "done"
    /\ UNCHANGED <<content, original_content, rule_idx, cl_others>>

\* lines 72 and 76: nothing changed, the file is left alone
LeaveFile ==
    /\ cl_pc = "rules"
    /\ rule_idx = Len(REPLACEMENTS)
    /\ content = original_content
    /\ cl_changed' = FALSE
    /\ cl_pc' = "done"
    /\ UNCHANGED <<cl_file, content, original_content, rule_idx, cl_others>>

-----------------------------------------------------------------------------
(* Specifications, one for each function under study.                      *)

ExInit == ExStart /\ HlIdle /\ MgIdle /\ RuIdle /\ MnIdle /\ RcIdle /\ TlIdle /\ CvIdle /\ ClIdle
ExNext == ExtractCall
SpecExtract == ExInit /\ [][ExNext]_vars

HlInit == ExIdle /\ HlStart /\ MgIdle /\ RuIdle /\ MnIdle /\ RcIdle /\ TlIdle /\ CvIdle /\ ClIdle
HlNext ==
    \/ HlEscape \/ HlKeywords \/ HlStrings \/ HlComments \/ HlNumbers
    \/ HlReturn
SpecHighlight == HlInit /\ [][HlNext]_vars

MgInit == ExIdle /\ HlIdle /\ MgStart /\ RuIdle /\ MnIdle /\ RcIdle /\ TlIdle /\ CvIdle /\ ClIdle
MgNext ==
    \/ BuildStructureMap \/ MergeEnrich \/ MergeExtractFailed
    \/ MergePassThrough \/ MergeReturn
SpecMerge == MgInit /\ [][MgNext]_vars

RuInit == ExIdle /\ HlIdle /\ MgIdle /\ RuStart /\ MnIdle /\ RcIdle /\ TlIdle /\ CvIdle /\ ClIdle
RuNext ==
    \/ ClassLevel \/ ItemNoToken \/ ItemNoDoc \/ ItemNoAbstract \/ ItemKeep
    \/ ItemReplace \/ ItemsDone \/ InjectDeclarations \/ SpecialHandling
    \/ SpecialHandlingRaises \/ RemoveTodos \/ WritePage
SpecReplace == RuInit /\ [][RuNext]_vars

MnInit == ExIdle /\ HlIdle /\ MgIdle /\ RuIdle /\ MnStart /\ RcIdle /\ TlIdle /\ CvIdle /\ ClIdle
MnNext ==
    \/ MainParseFails \/ MainNormalize \/ MainCallMerge \/ MainMergeRaises
    \/ BuildStructureMap \/ MergeEnrich \/ MergeExtractFailed
    \/ MergePassThrough \/ MergeReturn \/ MainWrite \/ MainWriteFails
SpecMain == MnInit /\ [][MnNext]_vars

RcInit == ExIdle /\ HlIdle /\ MgIdle /\ RuIdle /\ MnIdle /\ RcStart /\ TlIdle /\ CvIdle /\ ClIdle
RcNext ==
    \/ ScanType \/ ScanInit \/ ScanOutlet \/ ScanFunc \/ ScanVar \/ ScanOther
    \/ ScanDone \/ WalkTop \/ WalkBlockClose \/ WalkBlockOpen
    \/ WalkBlockInterior \/ WalkDocLine \/ WalkBlank \/ WalkAttribute
    \/ WalkStop \/ StoreDoc \/ NoDoc
SpecRecover == RcInit /\ [][RcNext]_vars

TlInit ==
    ExIdle /\ HlIdle /\ MgIdle /\ RuIdle /\ MnIdle /\ RcIdle /\ TlStart /\ CvIdle
    /\ ClIdle
TlNext ==
    \/ ToolSkipNoHtml \/ ToolSkipNoDocs \/ ToolCall \/ ToolReturn
    \/ ToolRaises \/ ToolLoopDone
    \/ ClassLevel \/ ItemNoToken \/ ItemNoDoc \/ ItemNoAbstract \/ ItemKeep
    \/ ItemReplace \/ ItemsDone \/ InjectDeclarations \/ SpecialHandling
    \/ SpecialHandlingRaises \/ RemoveTodos \/ WritePage
SpecTool == TlInit /\ [][TlNext]_vars

CvInit ==
    ExIdle /\ HlIdle /\ MgIdle /\ RuIdle /\ MnIdle /\ RcIdle /\ TlIdle /\ CvStart
    /\ ClIdle
CvNext == CvBacktick \/ CvCodeClosed \/ CvCodeOpen \/ CvPlain \/ CvReturn
\* the interpreter goes on with the next statement as long as there is one
SpecConvert == CvInit /\ [][CvNext]_vars /\ WF_vars(CvNext)

ClInit ==
    ExIdle /\ HlIdle /\ MgIdle /\ RuIdle /\ MnIdle /\ RcIdle /\ TlIdle /\ CvIdle
    /\ ClStart
ClNext == ReadFile \/ NextRule \/ WriteCleaned \/ LeaveFile
SpecClean == ClInit /\ [][ClNext]_vars

-----------------------------------------------------------------------------
(* Properties of merge_structure_and_docs.                                 *)

DeclKeys == {"key.parsed_declaration", "key.annotated_decl",
             "key.swift_declaration"}

\* every item of the structure tree
RECURSIVE NodesOf(_)
NodesOf(item) ==
    {item} \cup
    (IF "key.substructure" \in DOMAIN item
     THEN UNION {NodesOf(item["key.substructure"][k]) :
                    k \in 1..Len(item["key.substructure"])}
     ELSE {})

TreeNodes(s) ==
    IF s.kind = "list" THEN UNION {NodesOf(s.items[k]) : k \in 1..Len(s.items)}
    ELSE NodesOf(s.item)

\* the items of the tree that carry the identifier of doc_item
NodesFor(doc_item) ==
    {n \in TreeNodes(structure) :
        "key.usr" \in DOMAIN n /\ n["key.usr"] = doc_item["key.usr"]}

HasIdentifier(doc_item) ==
    "key.usr" \in DOMAIN doc_item /\ doc_item["key.usr"] # ""

\* the loop has completed an iteration; LastIdx is the record it handled
Processed == mg_pc \in {"loop", "done"} /\ doc_idx >= 2
LastIdx == doc_idx - 1

IsEnriched(d) == DeclKeys \subseteq DOMAIN d

\* C1: the list returned holds the records of the doc list passed in, each
\* once, in the order they were passed: none dropped, duplicated or moved.
C1_NoRecordDropped ==
    mg_pc = "done" =>
        /\ Len(result) = Len(docs_in)
        /\ \A i \in 1..Len(result) : result[i] = i

C1_Witness ==
    /\ mg_pc = "done"
    /\ \E i, j \in 1..Len(result) :
          IsEnriched(docs[result[i]]) /\ ~IsEnriched(docs[result[j]])

\* C2: for a record whose identifier (a non-empty key.usr) is carried by an
\* item of the structure tree, offset and length are those of such an item,
\* whatever offset and length the record has of its own, and when the item
\* gives both as integers the declaration fields hold the text of that range.
C2_StructureOffsetsUsed ==
    Processed =>
        LET d_in == docs_in[LastIdx]
            d == docs[LastIdx]
        IN  (HasIdentifier(d_in) /\ NodesFor(d_in) # {}) =>
            \E n \in NodesFor(d_in) :
                /\ mg_offset = Get(n, "key.offset")
                /\ mg_length = Get(n, "key.length")
                /\ (IsInt(mg_offset) /\ IsInt(mg_length)) =>
                      /\ IsEnriched(d)
                      /\ d["key.parsed_declaration"] =
                            extract_declaration(mg_source_code,
                                Get(n, "key.offset"), Get(n, "key.length")).value
                      /\ d["key.swift_declaration"] = d["key.parsed_declaration"]

C2_Witness ==
    /\ Processed
    /\ HasIdentifier(docs_in[LastIdx])
    /\ NodesFor(docs_in[LastIdx]) # {}
    /\ "key.offset" \in DOMAIN docs_in[LastIdx]
    /\ docs_in[LastIdx]["key.offset"] # mg_offset
    /\ IsEnriched(docs[LastIdx])
    /\ docs[LastIdx]["key.parsed_declaration"] = "func f()"

\* the range resolved for the latest record does not lie within the encoded
\* source buffer, or is no pair of integers at all
CannotExtract ==
    IF IsInt(mg_offset) /\ IsInt(mg_length)
    THEN \/ mg_offset.value > Len(encode_utf8(mg_source_code))
         \/ mg_offset.value + mg_length.value > Len(encode_utf8(mg_source_code))
    ELSE TRUE

\* C3: when offset and length are resolved but cannot be extracted from the
\* source buffer, a warning is printed for the record and none of the three
\* declaration fields is set on it.
C3_WarnOnUnextractable ==
    (Processed /\ mg_offset # None /\ mg_length # None /\ CannotExtract) =>
        /\ \E w \in 1..Len(warnings) : warnings[w] = LastIdx
        /\ DOMAIN docs[LastIdx] \cap DeclKeys = {}

\* C4: structure {s1, 10, 8}, docs [{s1, f}], source with "func f()" at bytes
\* 10..18: the one record returned has "func f()" in both raw fields and a
\* highlighted text that contains <span class="kd">func</span>.
C4_EndToEnd ==
    ( /\ mg_pc = "done"
      /\ structure = Root(Node("s1", JInt(10), JInt(8)))
      /\ docs_in = <<Doc("s1", "f")>>
      /\ mg_source_code = "          func f()" ) =>
        /\ Len(result) = 1
        /\ IsEnriched(docs[result[1]])
        /\ docs[result[1]]["key.parsed_declaration"] = "func f()"
        /\ docs[result[1]]["key.swift_declaration"] = "func f()"
        /\ Contains(docs[result[1]]["key.annotated_decl"], KeywordSpan("func"))

\* the items of the tree in the order build_structure_map visits them: an
\* item before its children, the children left to right
RECURSIVE Preorder(_)
RECURSIVE PreorderAll(_, _)
Preorder(item) ==
    <<item>> \o
    (IF "key.substructure" \in DOMAIN item
     THEN PreorderAll(item["key.substructure"], 1) ELSE <<>>)

PreorderAll(items, k) ==
    IF k > Len(items) THEN <<>>
    ELSE Preorder(items[k]) \o PreorderAll(items, k + 1)

Visited == IF structure.kind = "list" THEN PreorderAll(structure.items, 1)
           ELSE Preorder(structure.item)

\* the last item visited that carries identifier usr
LastVisited(usr) ==
    Visited[Max({i \in 1..Len(Visited) :
                    "key.usr" \in DOMAIN Visited[i] /\ Visited[i]["key.usr"] = usr})]

\* C16: the index maps every identifier of the tree to the last item visited
\* that carries it, and a record with a non-empty identifier of the tree
\* gets offset and length, and with both integers its declaration, from that
\* item.
C16_LastDuplicateWins ==
    /\ mg_pc \in {"loop", "done"} =>
          /\ DOMAIN structure_map =
                {n["key.usr"] : n \in {m \in TreeNodes(structure) : "key.usr" \in DOMAIN m}}
          /\ \A usr \in DOMAIN structure_map : structure_map[usr] = LastVisited(usr)
    /\ (Processed /\ HasIdentifier(docs_in[LastIdx]) /\ NodesFor(docs_in[LastIdx]) # {}) =>
          LET n == LastVisited(docs_in[LastIdx]["key.usr"]) IN
          /\ mg_offset = Get(n, "key.offset")
          /\ mg_length = Get(n, "key.length")
          /\ (IsInt(mg_offset) /\ IsInt(mg_length)) =>
                docs[LastIdx]["key.parsed_declaration"] =
                    extract_declaration(mg_source_code, Get(n, "key.offset"),
                                        Get(n, "key.length")).value

C16_Witness ==
    /\ Processed
    /\ docs_in[LastIdx] = Doc("s1", "f")
    /\ Cardinality(NodesFor(docs_in[LastIdx])) = 2
    /\ mg_offset = JInt(10)
    /\ docs[LastIdx]["key.parsed_declaration"] = "func f()"

\* C17: every record keeps every field other than the three declaration
\* fields, with its value, and gets no other field; a record for which offset
\* or length is not resolved is the record that was passed in.
C17_OnlyDeclarationFieldsChange ==
    /\ Len(docs) = Len(docs_in)
    /\ \A i \in 1..Len(docs) :
          /\ DOMAIN docs[i] \ DeclKeys = DOMAIN docs_in[i] \ DeclKeys
          /\ \A k \in DOMAIN docs_in[i] \ DeclKeys : docs[i][k] = docs_in[i][k]
    /\ (Processed /\ (mg_offset = None \/ mg_length = None)) =>
          docs[LastIdx] = docs_in[LastIdx]
    /\ mg_pc = "done" =>
          \A i \in 1..Len(result) :
              \A k \in DOMAIN docs_in[i] \ DeclKeys :
                  k \in DOMAIN docs[result[i]] /\ docs[result[i]][k] = docs_in[i][k]

C17_Witness ==
    /\ mg_pc = "done"
    /\ Len(result) = 2
    /\ docs_in[1] = Own(Doc("s1", "f"), JInt(0), JInt(4))
    /\ IsEnriched(docs[result[1]])
    /\ docs[result[1]]["key.name"] = "f"
    /\ docs[result[1]]["key.offset"] = JInt(0)
    /\ docs_in[2] = Put(Doc("s3", "m"), "key.offset", JInt(5))
    /\ docs[result[2]] = docs_in[2]

\* C18: no step of a merge changes the structure tree or a record of the
\* doc list that was passed in.
C18_InputsReadOnly == [][structure' = structure /\ docs' = docs]_vars

HasOwnPair(doc_item) ==
    "key.offset" \in DOMAIN doc_item /\ "key.length" \in DOMAIN doc_item

\* the record has a counterpart in the structure tree
HasCounterpart(doc_item) ==
    HasIdentifier(doc_item) /\ NodesFor(doc_item) # {}

\* C24: the record's own offset and length are taken only when it has no
\* counterpart in the structure tree.  With a counterpart that lacks offset
\* or length the record comes out as it was passed in, whatever pair it
\* carries itself; without a counterpart the record's own pair is used, and
\* when it is a pair of integers the declaration is the text of that range;
\* without a counterpart and without a pair of its own the record comes out
\* as it was passed in.
C24_OwnPairOnlyWithoutCounterpart ==
    Processed =>
        LET d_in == docs_in[LastIdx]
            d == docs[LastIdx]
        IN  /\ ( /\ HasCounterpart(d_in)
                 /\ \/ Get(LastVisited(d_in["key.usr"]), "key.offset") = None
                    \/ Get(LastVisited(d_in["key.usr"]), "key.length") = None )
               => d = d_in /\ (mg_offset = None \/ mg_length = None)
            /\ ( ~HasCounterpart(d_in) /\ HasOwnPair(d_in) )
               => /\ mg_offset = d_in["key.offset"]
                  /\ mg_length = d_in["key.length"]
                  /\ (IsInt(mg_offset) /\ IsInt(mg_length)) =>
                        /\ IsEnriched(d)
                        /\ d["key.parsed_declaration"] =
                              extract_declaration(mg_source_code,
                                  d_in["key.offset"], d_in["key.length"]).value
            /\ ( ~HasCounterpart(d_in) /\ ~HasOwnPair(d_in) )
               => d = d_in /\ mg_offset = None /\ mg_length = None

\* a record with a complete pair of its own whose counterpart has no offset
\* came out as it was passed in
C24_Witness ==
    /\ Processed
    /\ HasCounterpart(docs_in[LastIdx])
    /\ Get(LastVisited(docs_in[LastIdx]["key.usr"]), "key.offset") = None
    /\ Get(LastVisited(docs_in[LastIdx]["key.usr"]), "key.length") # None
    /\ HasOwnPair(docs_in[LastIdx])
    /\ IsInt(docs_in[LastIdx]["key.offset"])
    /\ IsInt(docs_in[LastIdx]["key.length"])
    /\ docs[LastIdx] = docs_in[LastIdx]

-----------------------------------------------------------------------------
(* Properties of highlight_swift.                                          *)

Occurrences(s, sub) == Cardinality({i \in 1..Len(s) : MatchesAt(s, i, sub)})

\* C5: for an input that is one keyword, the text returned holds exactly one
\* span element, the keyword span around that keyword.
C5_OneKeywordSpan ==
    (hl_pc = "returned" /\ hl_input \in {keywords[k] : k \in 1..Len(keywords)}) =>
        /\ Occurrences(hl_code, "<span") = 1
        /\ Contains(hl_code, KeywordSpan(hl_input))

-----------------------------------------------------------------------------
(* Properties of extract_declaration.                                      *)

IsContinuation(b) == b >= 128 /\ b <= 191

\* a character of the encoded text starts after its first p bytes
IsCharBoundary(bytes, p) == p = Len(bytes) \/ ~IsContinuation(bytes[p + 1])

\* bytes [o, o + l) without the bytes of the characters that the range cuts
WholeCharBytes(bytes, o, l) ==
    LET B == {p \in o..(o + l) : IsCharBoundary(bytes, p)} IN
    IF B = {} THEN <<>> ELSE SubSeq(bytes, Min(B) + 1, Max(B))

ExInBounds ==
    /\ IsInt(ex_offset) /\ IsInt(ex_length)
    /\ ex_offset.value >= 0 /\ ex_length.value >= 0
    /\ ex_offset.value + ex_length.value <= Len(encode_utf8(ex_source_code))

\* C6: for offset >= 0, length >= 0 and offset + length within the encoded
\* buffer the call returns; its result, encoded again, is the byte range
\* itself when the range starts and ends between characters, and otherwise
\* the range less the bytes of the characters it cuts.
C6_ExtractRoundTrip ==
    (ex_pc = "returned" /\ ExInBounds) =>
        LET bytes == encode_utf8(ex_source_code)
            o == ex_offset.value
            l == ex_length.value
        IN  /\ ~ex_result.raised
            /\ encode_utf8(ex_result.value) = WholeCharBytes(bytes, o, l)
            /\ (IsCharBoundary(bytes, o) /\ IsCharBoundary(bytes, o + l)) =>
                  encode_utf8(ex_result.value) = SubSeq(bytes, o + 1, o + l)

C6_Witness ==
    /\ ex_pc = "returned"
    /\ ExInBounds
    /\ ~IsCharBoundary(encode_utf8(ex_source_code), ex_offset.value)
    /\ ex_result.value = "€"

-----------------------------------------------------------------------------
(* Properties of the name matching in replace_undocumented_in_html.  After *)
(* a step of the loop over an item with a token, name and doc are those of *)
(* that item.                                                              *)

\* the loop has just matched the name of an item
Matched ==
    /\ ru_pc = "items"
    /\ item_idx >= 1
    /\ soup.items[item_idx].token.present

\* the rendered display name of that item
DisplayName == Strip(soup.items[item_idx].token.text)

\* the documentation stored under key k
Stored(k) == (CHOOSE e \in {inline_docs[i] : i \in 1..Len(inline_docs)} : e.key = k).value

\* d is k followed by a parenthesized parameter list
IsCallOf(d, k) ==
    /\ Len(d) >= Len(k) + 2
    /\ SubSeq(d, 1, Len(k) + 1) = k \o "("
    /\ SubSeq(d, Len(d), Len(d)) = ")"

\* key k is a prefix of s or occurs within s
KeyWithin(k, s) ==
    \E i \in 1..(Len(s) - Len(k) + 1) : SubSeq(s, i, i + Len(k) - 1) = k

\* C7: for a display name k( ... ) whose k is a key of the comment map, the
\* documentation found is the one stored under k, and the base name is k.
C7_CallNameResolvesToBase ==
    Matched =>
        \A k \in KeysOf(inline_docs) :
            IsCallOf(DisplayName, k) =>
                /\ doc = Found(Stored(k))
                /\ ("\n" \notin CharsOf(DisplayName) => name = k)

C7_Witness ==
    /\ Matched
    /\ DisplayName = "doSomething(_:)"
    /\ Len(inline_docs) = 2
    /\ inline_docs[1].key = "do"
    /\ inline_docs[2].key = "doSomething"
    /\ doc = Found("x")

\* C8: when no key equals the base name, a key within the base name makes
\* the match succeed with the documentation of a key within the base name,
\* and a display name that holds no key and equals none gives no match.
C8_SubstringFallback ==
    (Matched /\ name \notin KeysOf(inline_docs)) =>
        LET Within == {k \in KeysOf(inline_docs) : KeyWithin(k, name)} IN
        /\ Within # {} => doc.found /\ doc.value \in {Stored(k) : k \in Within}
        /\ (\A k \in KeysOf(inline_docs) : ~KeyWithin(k, DisplayName)) =>
              doc = NotFound

C8_Witness ==
    /\ Matched
    /\ DisplayName = "fooBarBaz"
    /\ "Bar" \in KeysOf(inline_docs)
    /\ doc = Found("y")

\* C9: the documentation is that of the base name when it is a key; failing
\* that, that of the text before the first parenthesis of the display name
\* when it is a key; failing both, that of the first key in insertion order
\* that is within the base name, and nothing when there is no such key.
C9_TierPrecedence ==
    Matched =>
        LET paren == {i \in 1..Len(DisplayName) : SubSeq(DisplayName, i, i) = "("}
            before == SubSeq(DisplayName, 1, Min(paren) - 1)
            hits == {i \in 1..Len(inline_docs) : KeyWithin(inline_docs[i].key, name)}
        IN  IF name \in KeysOf(inline_docs) THEN doc = Found(Stored(name))
            ELSE IF paren # {} /\ before \in KeysOf(inline_docs)
            THEN doc = Found(Stored(before))
            ELSE IF hits # {}
            THEN /\ doc = Found(inline_docs[Min(hits)].value)
                 /\ \A j \in 1..(Min(hits) - 1) :
                       ~KeyWithin(inline_docs[j].key, name)
            ELSE doc = NotFound

C9_Witness ==
    /\ Matched
    /\ DisplayName = "doSomethingBar"
    /\ Len(inline_docs) = 2
    /\ inline_docs[1].key = "Bar"
    /\ inline_docs[2].key = "do"
    /\ doc = Found("y")

\* C10: a step of the loop over an item for which no documentation is found
\* changes neither the page nor the counter, and the paragraph of such an
\* item is the placeholder it was in every later step, the written page
\* included.
NoKeyFor(item) ==
    /\ item.token.present
    /\ \A k \in KeysOf(inline_docs) : ~KeyWithin(k, Strip(item.token.text))

C10_NoMatchLeavesPlaceholder ==
    [][ /\ (HasNextItem /\ item_idx' = item_idx + 1 /\ NextItem.token.present
                /\ ~doc'.found) =>
              /\ soup' = soup
              /\ replaced_count' = replaced_count
        /\ \A i \in 1..Len(soup.items) :
              (NoKeyFor(soup.items[i]) /\ IsUndocumentedText(soup.items[i].p)) =>
                  /\ soup'.items[i].p = soup.items[i].p
                  /\ disk'.items[i].p = disk.items[i].p ]_vars

C10_Witness ==
    /\ ru_pc = "returned"
    /\ replaced_count = 1
    /\ Len(disk.items) = 2
    /\ disk.items[1].token = Token("zzz")
    /\ IsUndocumentedText(disk.items[1].p)
    /\ disk.items[2].token = Token("fooBarBaz")
    /\ ~IsUndocumentedText(disk.items[2].p)

\* C25: the substring fallback takes containment in either direction: when
\* no key equals the base name, a key that is a prefix of the base name, lies
\* within it, or holds the base name within itself gives a match.
C25_ContainmentEitherWay ==
    (Matched /\ name \notin KeysOf(inline_docs)) =>
        \A k \in KeysOf(inline_docs) :
            (KeyWithin(k, name) \/ KeyWithin(name, k)) => doc.found

\* the text of the paragraph, without the whitespace around it, is the
\* placeholder
ShowsPlaceholder(p) ==
    p.present /\ Strip(GetText(p.parts)) = "Undocumented"

\* C27: a step of the loop over the items changes nothing of the page but
\* the paragraph of the item it handles, and that only when the paragraph
\* shows the placeholder; a paragraph with any other text stays as it is,
\* also when a documentation was found for the item; and what a replacement
\* puts in the paragraph is no placeholder, so that a second run leaves it.
C27_OnlyPlaceholderRewritten ==
    [][ (HasNextItem /\ item_idx' = item_idx + 1) =>
          /\ \A i \in 1..Len(soup.items) :
                soup'.items[i] # soup.items[i] =>
                    /\ i = item_idx + 1
                    /\ ShowsPlaceholder(soup.items[i].p)
                    /\ ~ShowsPlaceholder(soup'.items[i].p)
          /\ [soup' EXCEPT !.items = soup.items] = soup
          /\ ~ShowsPlaceholder(NextItem.p) =>
                soup' = soup /\ replaced_count' = replaced_count ]_vars

\* the loop has handled an item with real documentation for which the map
\* holds a documentation, and has left its paragraph as it was
C27_Witness ==
    /\ ru_pc = "items"
    /\ item_idx >= 1
    /\ soup.items[item_idx].token = Token("Bar")
    /\ doc = Found("y")
    /\ soup.items[item_idx].p = Para(<<TextNode("Plays it. // TODO: check")>>)
    /\ soup = disk

-----------------------------------------------------------------------------
(* Properties of main() of the merge tool.                                 *)

Exited == main_pc = "exited"
ParseFailed == args.structure = Unparsable \/ args.docs = Unparsable
Printed(message) == \E i \in 1..Len(stderr) : stderr[i] = message

\* C13 as the specification words it: a doc input that is a mapping, the
\* empty one included, is merged as a list of one record.
C13_EveryMappingWrapped ==
    /\ (main_pc = "merge" /\ IsDictValue(args.docs)) => docs = <<args.docs.item>>
    /\ (Exited /\ exit_code = JInt(0) /\ IsDictValue(args.docs)) =>
          Len(output.records) = 1

\* C13: a doc input that is a non-empty mapping is merged as the list of that
\* one record, and the output then has exactly one record; the empty mapping
\* is merged as the empty list, and the output has no record.
C13_NonEmptyMappingWrapped ==
    /\ (main_pc = "merge" /\ IsDictValue(args.docs)) =>
          docs = IF args.docs.item = EmptyDict THEN <<>> ELSE <<args.docs.item>>
    /\ (Exited /\ exit_code = JInt(0) /\ IsDictValue(args.docs)) =>
          IF args.docs.item = EmptyDict THEN output.records = <<>>
          ELSE /\ Len(output.records) = 1
               /\ docs_in = <<args.docs.item>>

C13_Witness ==
    /\ Exited
    /\ exit_code = JInt(0)
    /\ args.docs = Root(Doc("s1", "f"))
    /\ Len(output.records) = 1
    /\ IsEnriched(output.records[1])

\* C14: when both inputs parse and one of them is a number, string, boolean
\* or null, a warning is printed for it, the structure is merged as {} and
\* the docs as [], the merge runs to its end when the structure can be
\* walked, and the exit code is 0 unless writing the output fails.
C14_MalformedShapeCoerced ==
    (~ParseFailed /\ main_pc \in {"merge", "merging", "exited"}) =>
        /\ args.structure \in Scalars =>
              Printed("warning_structure") /\ structure = Root(EmptyDict)
        /\ args.docs \in Scalars =>
              Printed("warning_docs") /\ docs = <<>>
        /\ (Exited /\ (args.structure \in Scalars \/ args.docs \in Scalars)
                /\ WalkableStructure(structure)) =>
              /\ mg_pc = "done"
              /\ exit_code = JInt(0) <=> output.state = "written"
              /\ exit_code = JInt(0) => output.records = Merged

C14_Witness ==
    /\ Exited
    /\ args.structure = JInt(5)
    /\ args.docs = Root(Own(Doc("s3", "m"), JInt(0), JInt(4)))
    /\ stderr = <<"warning_structure", "success">>
    /\ exit_code = JInt(0)
    /\ Len(output.records) = 1

\* C15: a run that has not ended has no exit code and no output file; a
\* run that has ended either has exit code 0, the merged list in the output
\* file and the success summary as its last message, or has exit code 1 and
\* the error summary as its last message after the parse, the merge or the
\* write raised; when the parse raised there is no output file.
C15_TwoOutcomes ==
    /\ ~Exited => exit_code = None /\ output.state = "absent"
    /\ Exited =>
          \/ /\ exit_code = JInt(0)
             /\ output = [state |-> "written", records |-> Merged]
             /\ stderr[Len(stderr)] = "success"
             /\ ~Printed("error")
          \/ /\ exit_code = JInt(1)
             /\ stderr[Len(stderr)] = "error"
             /\ ~Printed("success")
             /\ output.state # "written"
             /\ \/ ParseFailed
                \/ ~ParseFailed /\ ~WalkableStructure(structure)
                \/ mg_pc = "done"
    /\ (Exited /\ ParseFailed) => output.state = "absent"

C15_Witness ==
    /\ Exited
    /\ exit_code = JInt(1)
    /\ mg_pc = "done"
    /\ Len(result) = 2
    /\ output.state = "partial"

-----------------------------------------------------------------------------
(* Properties of parse_swift_inline_docs and extract_doc_comment.  The scan *)
(* has just dealt with line start_idx - 1 when it stands at the top of its  *)
(* loop or has returned.                                                    *)

Scanned == rc_pc \in {"scan", "done"} /\ start_idx >= 2

JustScanned == start_idx - 1

\* a line that holds nothing but the marker
IsMarkerLine(line, marker) == Strip(line) = marker

\* lines o..c are a block comment of several lines: /** alone on line o, */
\* alone on line c, and no comment marker on the lines between
IsBlockComment(o, c) ==
    /\ 1 <= o /\ o < c /\ c <= Len(lines)
    /\ IsMarkerLine(lines[o], "/**")
    /\ IsMarkerLine(lines[c], "*/")
    /\ \A j \in (o + 1)..(c - 1) :
          ~Contains(lines[j], "*/") /\ ~Contains(lines[j], "/*")

\* an interior line without its indentation and leading asterisks
WithoutAsterisks(line) == Strip(LStripStars(Strip(line)))

IsNonEmpty(text) == text # ""

\* the non-empty interior lines of the block comment o..c, in source order
InteriorLines(o, c) ==
    SelectSeq([j \in 1..(c - o - 1) |-> WithoutAsterisks(lines[o + j])],
              IsNonEmpty)

HasEntry(k, v) ==
    k \in KeysOf(swift_docs) /\ swift_docs[Lookup(swift_docs, k)].value = v

\* C11: when a block comment of several lines (the opening marker on a line
\* of its own, interior lines, the closing marker on a line of its own)
\* stands immediately above a function declaration, then once the scan has
\* dealt with that declaration the map holds under the function's name the
\* non-empty interior lines of the comment, in source order, joined by
\* single spaces, without markers and leading asterisks.  (A comment whose
\* interior lines are all empty has no text to record.)
C11_BlockCommentRecovered ==
    \A o \in 1..Len(lines) :
        ( /\ Scanned
          /\ FuncMatch(lines[JustScanned]).matched
          /\ IsBlockComment(o, JustScanned - 1)
          /\ InteriorLines(o, JustScanned - 1) # <<>> )
        => HasEntry(FuncMatch(lines[JustScanned]).word,
                    JoinSpaces(InteriorLines(o, JustScanned - 1)))

\* a function below a block comment with two lines of text and an empty
\* asterisk line has been scanned and its entry is in the map
C11_Witness ==
    /\ Scanned
    /\ FuncMatch(lines[JustScanned]).matched
    /\ \E o \in 1..Len(lines) :
          /\ IsBlockComment(o, JustScanned - 1)
          /\ Len(InteriorLines(o, JustScanned - 1)) = 2
          /\ JustScanned - 1 - o - 1 = 3
    /\ HasEntry("play", "Plays a note. at full velocity.")

\* an initializer declaration: init( after leading whitespace and an
\* optional visibility qualifier
IsInitializer(line) ==
    ReMatch(line, {"public", "private", "internal"}, {"init"},
            <<OptSpaces, Lit("(")>>).matched

\* the nearest line above line j that is neither blank nor an attribute, 0
\* when there is none
NearestAbove(j) ==
    Max({k \in 1..(j - 1) :
            Strip(lines[k]) # "" /\ ~StartsWith(Strip(lines[k]), "@")}
        \cup {0})

IsCommentEnd(line) ==
    StartsWith(Strip(line), "///") \/ EndsWith(Strip(line), "*/")

\* the initializers of the file that have a comment above them
CommentedInitializers ==
    {j \in 1..Len(lines) :
        /\ IsInitializer(lines[j])
        /\ NearestAbove(j) >= 1
        /\ IsCommentEnd(lines[NearestAbove(j)])}

\* the comment above line j is one /// line
HasOneLineComment(j) ==
    /\ NearestAbove(j) >= 1
    /\ StartsWith(Strip(lines[NearestAbove(j)]), "///")
    /\ ~EndsWith(Strip(lines[NearestAbove(j)]), "*/")
    /\ \/ NearestAbove(NearestAbove(j)) = 0
       \/ ~IsCommentEnd(lines[NearestAbove(NearestAbove(j))])

\* the text of a /// line
DocText(line) == Strip(SubSeq(Strip(line), 4, Len(Strip(line))))

\* C12: all initializers share the key init: once a file with commented
\* initializers has been scanned, the map holds the key init, and its value
\* is the comment of the last commented initializer of the file (stated for
\* a last commented initializer whose comment is one /// line).
C12_LastCommentedInitializerWins ==
    ( /\ rc_pc = "done"
      /\ CommentedInitializers # {}
      /\ HasOneLineComment(Max(CommentedInitializers)) )
    => HasEntry("init",
                DocText(lines[NearestAbove(Max(CommentedInitializers))]))

\* the closing line of the block comment nearest the declaration: the first
\* line ending in */ that the walk met on its way up
ClosingLine ==
    Max({j \in (walk_idx + 1)..(start_idx - 1) :
            EndsWith(Strip(lines[j]), "*/")} \cup {0})

\* the line of the opening marker that matches the closing marker of line c:
\* the nearest line at or above c that holds /*, 0 when there is none
OpeningLine(c) == Max({k \in 1..c : Contains(lines[k], "/*")} \cup {0})

\* C19: once the walk has met a block comment it stops at the opening marker
\* of that comment: it never goes on to a line above the opening marker,
\* also when the comment opens and closes on one line or opens with /*.
C19_WalkStopsAtOpeningMarker ==
    ( /\ rc_pc = "walk"
      /\ walk_idx >= 1
      /\ in_block_comment
      /\ OpeningLine(ClosingLine) >= 1 )
    => walk_idx >= OpeningLine(ClosingLine)

\* the walk is about to read line walk_idx, it has met no block comment and
\* the line does not end one
ReadsOutsideBlock ==
    /\ rc_pc = "walk"
    /\ walk_idx >= 1
    /\ ~in_block_comment
    /\ ~EndsWith(Strip(lines[walk_idx]), "*/")

GoesUp == walk_idx' = walk_idx - 1 /\ rc_pc' = "walk"

\* C20: in the walk up from a declaration, outside a block comment, a blank
\* line or a line starting with @ is passed over, the walk goes on and
\* doc_lines stays as it is; a line starting with /// puts its text in front
\* of doc_lines and the walk goes on; any other line (code, a plain //
\* comment) ends the walk with doc_lines as it is.  After the end of the walk
\* doc_lines no longer changes and is what gets stored, so nothing above the
\* line that ended the walk is in the recovered text.
C20_WalkOutsideBlock ==
    [][ /\ ( ReadsOutsideBlock /\ StartsWith(Strip(lines[walk_idx]), "///") )
           => GoesUp /\ doc_lines' =
                           <<DocText(lines[walk_idx])>> \o doc_lines
        /\ ( ReadsOutsideBlock /\ ( \/ Strip(lines[walk_idx]) = ""
                                    \/ StartsWith(Strip(lines[walk_idx]), "@") ) )
           => GoesUp /\ doc_lines' = doc_lines
        /\ ( /\ ReadsOutsideBlock
             /\ ~StartsWith(Strip(lines[walk_idx]), "///")
             /\ Strip(lines[walk_idx]) # ""
             /\ ~StartsWith(Strip(lines[walk_idx]), "@") )
           => rc_pc' = "return" /\ doc_lines' = doc_lines
        /\ rc_pc = "return"
           => /\ doc_lines' = doc_lines
              /\ \/ swift_docs' = swift_docs
                 \/ swift_docs' =
                       SetItem(swift_docs, rc_key, JoinSpaces(doc_lines))
      ]_vars

\* the walk has taken a /// line, passed over an attribute line and ended at
\* a code line that has a /// line above it, which is not in doc_lines
C20_Witness ==
    /\ rc_pc = "return"
    /\ ~in_block_comment
    /\ walk_idx >= 2
    /\ Strip(lines[walk_idx]) = "init() {"
    /\ StartsWith(lines[walk_idx - 1], "///")
    /\ \E j \in (walk_idx + 1)..(start_idx - 1) : StartsWith(lines[j], "@")
    /\ doc_lines = <<"Stops.">>

\* a line the scan takes for a declaration: one of the five patterns of
\* lines 70-100 matches it
IsDeclarationLine(line) ==
    \/ TypeMatch(line).matched \/ InitMatch(line).matched
    \/ OutletMatch(line).matched \/ FuncMatch(line).matched
    \/ VarMatch(line).matched

\* C21: a comment belongs to the first declaration below it only: the walk
\* up from a declaration never takes text from a comment line that has
\* another declaration line between it and the declaration the walk started
\* from.
C21_CommentFeedsOneDeclaration ==
    ( /\ rc_pc = "walk"
      /\ walk_idx >= 1
      /\ StartsWith(Strip(lines[walk_idx]), "///") )
    => \A j \in (walk_idx + 1)..(start_idx - 1) : ~IsDeclarationLine(lines[j])

\* the keys of a map in iteration order
KeyOrder(map) == [j \in 1..Len(map) |-> map[j].key]

\* C22 as stated: the keys iterate in the order of the declarations their
\* values come from.  The scan goes down the file, so this says that the key
\* of every store iterates last afterwards, also when the store overwrites.
C22_OrderOfStoredValues ==
    [][ swift_docs' # swift_docs
        => swift_docs'[Len(swift_docs')].key = rc_key ]_vars

\* C22, amended: the keys iterate in the order of the first commented
\* declaration of each name: a store under a new key puts it last, and a
\* store under a key of the map changes the value and leaves every key where
\* it is.
C22_OrderOfFirstStore ==
    [][ swift_docs' # swift_docs
        => IF rc_key \in KeysOf(swift_docs)
           THEN KeyOrder(swift_docs') = KeyOrder(swift_docs)
           ELSE KeyOrder(swift_docs') = Append(KeyOrder(swift_docs), rc_key)
      ]_vars

\* init was stored from line 2, knob from line 4, init again from line 5,
\* and init still iterates first
C22_Witness ==
    /\ rc_pc = "done"
    /\ lines = <<"/// Starts.", "init() {", "/// Stops.",
                 "@IBOutlet weak var knob: UIView!", "private init() {">>
    /\ swift_docs = <<Entry("init", "Stops."), Entry("knob", "Stops.")>>

Visibility == {"public", "private", "internal"}

\* the name a line declares: one of the five forms, after leading whitespace
\* and an optional visibility qualifier
DeclaredName(line) ==
    LET type == ReMatch(line, Visibility,
                        {"class", "struct", "enum", "protocol", "extension"},
                        <<Spaces, Word>>)
        init == ReMatch(line, Visibility, {"init"}, <<OptSpaces, Lit("(")>>)
        outlet == ReMatch(line, Visibility, {"@IBOutlet"},
                          <<Spaces, Lit("weak"), Spaces, Lit("var"), Spaces,
                            Word>>)
        func == ReMatch(line, Visibility, {"func"}, <<Spaces, Word>>)
        var == ReMatch(line, Visibility, {"var", "let"}, <<Spaces, Word>>)
    IN  IF type.matched THEN type
        ELSE IF init.matched THEN [matched |-> TRUE, word |-> "init"]
        ELSE IF outlet.matched THEN outlet
        ELSE IF func.matched THEN func
        ELSE var

\* the line just scanned has a /// line with text directly above it
CommentedAbove ==
    /\ Scanned
    /\ JustScanned >= 2
    /\ StartsWith(Strip(lines[JustScanned - 1]), "///")
    /\ DocText(lines[JustScanned - 1]) # ""

\* C23: a commented line of one of the five declaration forms, with or
\* without a visibility qualifier, is keyed by its declared name: once the
\* scan has dealt with it the map holds that name.
C23_QualifiedFormsRecognized ==
    ( CommentedAbove /\ DeclaredName(lines[JustScanned]).matched )
    => DeclaredName(lines[JustScanned]).word \in KeysOf(swift_docs)

DeclarationKeywords ==
    {"class", "struct", "enum", "protocol", "extension", "func", "var", "let",
     "static", "weak"}

\* the name of a type-level member: class func name or class var name
TypeMemberName(line) ==
    ReMatch(line, Visibility, {"class"},
            <<Spaces, Lit("func"), Spaces, Word>>)

\* C28: no key of the map is a keyword of a declaration, and a commented
\* type-level member such as class func reset() is keyed by its own name.
C28_KeyIsDeclaredName ==
    /\ KeysOf(swift_docs) \cap DeclarationKeywords = {}
    /\ ( CommentedAbove /\ TypeMemberName(lines[JustScanned]).matched )
       => TypeMemberName(lines[JustScanned]).word \in KeysOf(swift_docs)

-----------------------------------------------------------------------------
(* Properties of the loop over the Swift files in main() of               *)
(* replace-undocumented.py.                                               *)

\* the run is over: the loop was left, at its end or by an exception
RunOver == tool_pc \in {"crashed", "summary"}

\* the file has a page and comments: its page is to be rewritten
Recognized(k) ==
    swift_files[k].html_exists /\ swift_files[k].inline_docs # <<>>

\* the call for this file is the one that raised
CallRaised(k) == tool_pc = "crashed" /\ k = file_idx + 1

WasWritten(k) == \E j \in 1..Len(written) : written[j] = k

\* C26: a failure while rewriting one page is contained to that page: when
\* the run is over, every recognized page other than the one whose call
\* raised has been processed and written.
C26_FailureContained ==
    RunOver =>
        \A k \in 1..Len(swift_files) :
            (Recognized(k) /\ ~CallRaised(k)) => WasWritten(k)

-----------------------------------------------------------------------------
(* Properties of convert_backticks_to_code.                                *)

\* the text with every backtick removed
RECURSIVE WithoutBackticksFrom(_, _)
WithoutBackticksFrom(text, k) ==
    IF k > Len(text) THEN ""
    ELSE (IF Char(text, k) = Backtick THEN "" ELSE Char(text, k))
         \o WithoutBackticksFrom(text, k + 1)

WithoutBackticks(text) == WithoutBackticksFrom(text, 1)

\* the stretches of text that the backticks separate, in order: one more
\* than there are backticks
RECURSIVE StretchesFrom(_, _, _, _)
StretchesFrom(text, k, stretch, done) ==
    IF k > Len(text) THEN Append(done, stretch)
    ELSE IF Char(text, k) = Backtick
    THEN StretchesFrom(text, k + 1, "", Append(done, stretch))
    ELSE StretchesFrom(text, k + 1, stretch \o Char(text, k), done)

Stretches(text) == StretchesFrom(text, 1, "", <<>>)

\* the backticks pair up in order, the first with the second, the third with
\* the fourth: the text between a matched pair is every second stretch that
\* has a backtick after it
RECURSIVE PairTextsFrom(_, _)
PairTextsFrom(stretches, k) ==
    IF k >= Len(stretches) THEN <<>>
    ELSE <<stretches[k]>> \o PairTextsFrom(stretches, k + 2)

PairTexts(text) == PairTextsFrom(Stretches(text), 2)

\* the text after a final backtick that has no partner
HasUnmatchedBacktick(text) == Len(Stretches(text)) % 2 = 0
AfterUnmatched(text) == Stretches(text)[Len(Stretches(text))]

IsCode(part) == part.tag = "code"
IsFilled(str) == str # ""

\* the contents of the code elements among the parts, in order
CodeContents(made) ==
    LET codes == SelectSeq(made, IsCode) IN
    [j \in 1..Len(codes) |-> codes[j].string]

Converted == cv_pc = "done"

\* the parts and the contents of the code elements, joined in order, are the
\* text without its backticks
LosesNoText == GetText(cv_parts) = WithoutBackticks(cv_text)

\* the text after an unmatched final backtick is the last part, as plain text
TailKeptPlain ==
    (HasUnmatchedBacktick(cv_text) /\ AfterUnmatched(cv_text) # "") =>
        /\ cv_parts # <<>>
        /\ cv_parts[Len(cv_parts)] = TextNode(AfterUnmatched(cv_text))

-----------------------------------------------------------------------------
(* Properties of clean_file.                                               *)

MatchesSomewhere(page, pat) ==
    \E p \in 1..Len(page) : PatternEnd(page, p, pat, 1) > 0

Cleaned == cl_pc = "done"

\* the page, as it was read, holds the entry of APIManager with the text of
\* RecordedAudioObject that ends in the TODO
APIManagerShowsAudioClipTodo ==
    MatchesSomewhere(original_content,
        <<Lit("<p>" \o AudioClipText), OptSpaces, Lit(AudioClipTodo \o "</p>"),
          OptSpaces, Lit(APIManagerLink)>>)

\* the entry of APIManager shows this text
APIManagerShows(page, shown) ==
    MatchesSomewhere(page,
        <<Lit("<p>" \o shown \o "</p>"), OptSpaces, Lit(APIManagerLink)>>)

\* C30: the rule for APIManager takes effect: a page whose entry of
\* APIManager shows the text of RecordedAudioObject ending in the TODO shows,
\* once cleaned, the description of APIManager for that entry, and not the
\* replacement text of RecordedAudioObject.
C30_APIManagerRuleTakesEffect ==
    (Cleaned /\ APIManagerShowsAudioClipTodo) =>
        /\ APIManagerShows(cl_file, APIManagerFixed)
        /\ ~APIManagerShows(cl_file, AudioClipFixed)

====
